---- MODULE Spec2Model ----
(***************************************************************************)
(* The Monkey interpreter core: the Pratt parser (package parser) and the  *)
(* tree-walking evaluator (package evaluator) over chained environments    *)
(* (package object).                                                       *)
(*                                                                         *)
(* The parser and the evaluator are recursive Go functions over a mutable  *)
(* object (the Parser, the heap of Environments).  Each function is an     *)
(* operator that takes that object and returns the function's result       *)
(* together with the object as the function leaves it; the loops of        *)
(* ParseProgram and evalProgram are the actions of the two state machines. *)
(***************************************************************************)
EXTENDS Integers, Sequences, FiniteSets, TLC

VARIABLES
    tokens,     \* the input handed to lexer.New: the token stream before EOF
    p,          \* the *Parser
    program,    \* ast.Program.Statements built by ParseProgram / run by evalProgram
    ppc,        \* the parser's caller: "new" (no Parser yet), "parse" (in ParseProgram), "done"
    heap,       \* evaluator: the Environments allocated so far, the allocation counter,
                \* and the order in which the runtime ranges over the maps of hash literals
    idx,        \* evalProgram: index of the next statement of the loop
    result,     \* evalProgram: the local variable result
    epc         \* position of evalProgram: "idle", "loop", "returned", "panicked"

vars == <<tokens, p, program, ppc, heap, idx, result, epc>>

parserVars == <<tokens, p, ppc>>
evalVars == <<heap, idx, result, epc>>

(***************************************************************************)
(* Bounds of the model.                                                    *)
(***************************************************************************)
\* every token stream over the whole alphabet up to this length is parsed
MaxLen == 2

(***************************************************************************)
(* Tokens.  A token is its Type and its Literal, the lexeme as a sequence  *)
(* of characters.                                                          *)
(***************************************************************************)
Tok(t, lit) == [Type |-> t, Literal |-> lit]

EOFToken == Tok("EOF", <<>>)

\* the token kinds with a fixed lexeme
FixedLexeme ==
    ("LET" :> <<"l","e","t">>) @@ ("RETURN" :> <<"r","e","t","u","r","n">>) @@
    ("TRUE" :> <<"t","r","u","e">>) @@ ("FALSE" :> <<"f","a","l","s","e">>) @@
    ("FUNCTION" :> <<"f","n">>) @@ ("IF" :> <<"i","f">>) @@
    ("ELSE" :> <<"e","l","s","e">>) @@ ("BANG" :> <<"!">>) @@ ("MINUS" :> <<"-">>) @@
    ("PLUS" :> <<"+">>) @@ ("SLASH" :> <<"/">>) @@ ("ASTERISK" :> <<"*">>) @@
    ("EQ" :> <<"=","=">>) @@ ("NOT_EQ" :> <<"!","=">>) @@ ("LT" :> <<"<">>) @@
    ("GT" :> <<">">>) @@ ("ASSIGN" :> <<"=">>) @@ ("COMMA" :> <<",">>) @@
    ("SEMICOLON" :> <<";">>) @@ ("COLON" :> <<":">>) @@ ("LPAREN" :> <<"(">>) @@
    ("RPAREN" :> <<")">>) @@ ("LBRACE" :> <<"{">>) @@ ("RBRACE" :> <<"}">>) @@
    ("LBRACKET" :> <<"[">>) @@ ("RBRACKET" :> <<"]">>)

T(t) == Tok(t, FixedLexeme[t])
TIdent(name) == Tok("IDENT", <<name>>)
TInt(digits) == Tok("INT", digits)
TString(chars) == Tok("STRING", chars)

\* lexer.New and Lexer.NextToken: the tokens of the input in order, then EOF on
\* every further call
Lexer(input) == [input |-> input, position |-> 0]
NextToken(l) ==
    IF l.position < Len(l.input) THEN l.input[l.position + 1] ELSE EOFToken

(***************************************************************************)
(* Precedence ladder.                                                      *)
(***************************************************************************)
LOWEST == 1
EQUALS == 2
LESSGREATER == 3
SUM == 4
PRODUCT == 5
PREFIX == 6
CALL == 7

precedences ==
    [EQ |-> EQUALS, NOT_EQ |-> EQUALS, LT |-> LESSGREATER, GT |-> LESSGREATER,
     PLUS |-> SUM, MINUS |-> SUM, SLASH |-> PRODUCT, ASTERISK |-> PRODUCT,
     LPAREN |-> CALL]

(***************************************************************************)
(* AST.  Nil is the nil interface value; a LetStatement with nilptr is the *)
(* nil *ast.LetStatement held in a non-nil ast.Statement.                  *)
(***************************************************************************)
Nil == [node |-> "nil"]
\* a Go slice: the nil slice and the empty slice differ
Slice(s) == [isNil |-> FALSE, elems |-> s]
NilSlice == [isNil |-> TRUE, elems |-> <<>>]

Identifier(lit) == [node |-> "Identifier", Name |-> lit]
IntegerLiteral(v) == [node |-> "IntegerLiteral", Int |-> v]
StringLiteral(chars) == [node |-> "StringLiteral", Str |-> chars]
Boolean(b) == [node |-> "Boolean", Bool |-> b]
PrefixExpression(op, right) == [node |-> "PrefixExpression", Operator |-> op, Right |-> right]
InfixExpression(op, left, right) ==
    [node |-> "InfixExpression", Operator |-> op, Left |-> left, Right |-> right]
IfExpression(cond, cons, alt) ==
    [node |-> "IfExpression", Condition |-> cond, Consequence |-> cons, Alternative |-> alt]
FunctionLiteral(params, body) ==
    [node |-> "FunctionLiteral", Parameters |-> params, Body |-> body]
CallExpression(fn, args) == [node |-> "CallExpression", Function |-> fn, Arguments |-> args]
ArrayLiteral(elems) == [node |-> "ArrayLiteral", Elements |-> elems]
HashLiteral(pairs) == [node |-> "HashLiteral", Pairs |-> pairs]
IndexExpression(left, index) == [node |-> "IndexExpression", Left |-> left, Index |-> index]
BlockStatement(stmts) == [node |-> "BlockStatement", Statements |-> stmts]
LetStatement(name, value) ==
    [node |-> "LetStatement", nilptr |-> FALSE, LetName |-> name, Value |-> value]
NilLetStatement == [node |-> "LetStatement", nilptr |-> TRUE]
ReturnStatement(value) == [node |-> "ReturnStatement", ReturnValue |-> value]
ExpressionStatement(e) == [node |-> "ExpressionStatement", Expression |-> e]

(***************************************************************************)
(* Parser.  The Parser object is a record; every parse function returns    *)
(* [node, p]: its result and the Parser as it leaves it.  steps counts the *)
(* calls of parseExpression and the iterations of the loops; a parse that  *)
(* takes more than StepLimit of them is cut off and marked diverged.       *)
(***************************************************************************)
StepLimit(q) == 4 * (Len(q.l.input) + 2)

Ret(n, q) == [node |-> n, p |-> q]

Tick(q) == [q EXCEPT !.steps = @ + 1]
CutOff(q) == [q EXCEPT !.diverged = TRUE]
OutOfSteps(q) == q.diverged \/ q.steps >= StepLimit(q)

nextToken(q) ==
    [q EXCEPT !.curToken = q.peekToken,
              !.peekToken = NextToken(q.l),
              !.l.position = q.l.position + 1]

curTokenIs(q, t) == q.curToken.Type = t
peekTokenIs(q, t) == q.peekToken.Type = t

peekPrecedence(q) ==
    IF q.peekToken.Type \in DOMAIN precedences
    THEN precedences[q.peekToken.Type] ELSE LOWEST

curPrecedence(q) ==
    IF q.curToken.Type \in DOMAIN precedences
    THEN precedences[q.curToken.Type] ELSE LOWEST

\* peekError that records nothing
peekErrorSilent(q, t) == q

peekError(q, t) ==
    [q EXCEPT !.errors =
        Append(@, <<"expected next token to be", t, "got", q.peekToken.Type, "instead">>)]

\* [ok, p]
expectPeek(q, t) ==
    IF peekTokenIs(q, t)
    THEN [ok |-> TRUE, p |-> nextToken(q)]
    ELSE [ok |-> FALSE, p |-> peekError(q, t)]

noPrefixParseFnError(q, t) ==
    [q EXCEPT !.errors = Append(@, <<"no prefix parse function for", t, "found">>)]

\* the tables New registers
registeredPrefix ==
    ("IDENT" :> "parseIdentifier") @@ ("INT" :> "parseIntegerLiteral") @@
    ("BANG" :> "parsePrefixExpression") @@ ("MINUS" :> "parsePrefixExpression") @@
    ("TRUE" :> "parseBoolean") @@ ("FALSE" :> "parseBoolean") @@
    ("LPAREN" :> "parseGroupedExpression") @@ ("IF" :> "parseIfExpression") @@
    ("FUNCTION" :> "parseFunctionLiteral")

registeredInfix ==
    ("PLUS" :> "parseInfixExpression") @@ ("MINUS" :> "parseInfixExpression") @@
    ("SLASH" :> "parseInfixExpression") @@ ("ASTERISK" :> "parseInfixExpression") @@
    ("EQ" :> "parseInfixExpression") @@ ("NOT_EQ" :> "parseInfixExpression") @@
    ("LT" :> "parseInfixExpression") @@ ("GT" :> "parseInfixExpression") @@
    ("LPAREN" :> "parseCallExpression")

\* parser.New: the tables, then two nextToken so that cur and peek are set
New(l) ==
    nextToken(nextToken(
        [l |-> l, curToken |-> Tok("", <<>>), peekToken |-> Tok("", <<>>),
         errors |-> <<>>,
         prefixParseFns |-> registeredPrefix, infixParseFns |-> registeredInfix,
         steps |-> 0, diverged |-> FALSE]))

(***************************************************************************)
(* strconv.ParseInt(s, 0, 64) on a lexeme of decimal digits: base 0 takes  *)
(* the base from the prefix, and a leading "0" means octal.                *)
(***************************************************************************)
DigitVal ==
    ("0" :> 0) @@ ("1" :> 1) @@ ("2" :> 2) @@ ("3" :> 3) @@ ("4" :> 4) @@
    ("5" :> 5) @@ ("6" :> 6) @@ ("7" :> 7) @@ ("8" :> 8) @@ ("9" :> 9)

RECURSIVE DigitsValue(_, _)
DigitsValue(ds, base) ==
    IF ds = <<>> THEN 0
    ELSE DigitsValue(SubSeq(ds, 1, Len(ds) - 1), base) * base + DigitVal[ds[Len(ds)]]

RECURSIVE StripZeros(_)
StripZeros(ds) ==
    IF ds # <<>> /\ ds[1] = "0" THEN StripZeros(Tail(ds)) ELSE ds

\* the digits of 1<<63 - 1
MaxInt64Digits ==
    <<"9","2","2","3","3","7","2","0","3","6","8","5","4","7","7","5","8","0","7">>

RECURSIVE DigitsLeq(_, _)
DigitsLeq(a, b) ==
    IF a = <<>> THEN TRUE
    ELSE IF DigitVal[a[1]] # DigitVal[b[1]] THEN DigitVal[a[1]] < DigitVal[b[1]]
    ELSE DigitsLeq(Tail(a), Tail(b))

\* [ok, value]
ParseInt(lit) ==
    IF lit = <<>> THEN [ok |-> FALSE, value |-> 0]
    ELSE IF lit[1] = "0" /\ Len(lit) > 1
    THEN \* octal
         LET ds == Tail(lit) IN
         IF \E i \in 1..Len(ds) : DigitVal[ds[i]] > 7
         THEN [ok |-> FALSE, value |-> 0]
         ELSE IF Len(StripZeros(ds)) > 21
         THEN [ok |-> FALSE, value |-> 0]
         ELSE [ok |-> TRUE, value |-> DigitsValue(ds, 8)]
    ELSE \* decimal
         IF Len(lit) > Len(MaxInt64Digits)
            \/ (Len(lit) = Len(MaxInt64Digits) /\ ~DigitsLeq(lit, MaxInt64Digits))
         THEN [ok |-> FALSE, value |-> 0]
         ELSE [ok |-> TRUE, value |-> DigitsValue(lit, 10)]

(***************************************************************************)
(* The parselets and the statement parsers.                                *)
(*                                                                         *)
(* Bind(v, F) is F(v) with v evaluated once (x := v; ... x ... x ...): TLC *)
(* evaluates a LET definition again at each use when it computes ENABLED,  *)
(* which is exponential in the depth of a recursive descent.               *)
(***************************************************************************)
Bind(v, F(_)) == CHOOSE y \in {F(x) : x \in {v}} : TRUE

\* a call of p.parseExpression, p.parseStatement or p.parseBlockStatement: the
\* recursion of the parser goes through these three methods
RECURSIVE Parse(_, _, _)

parseIdentifier(q) == Ret(Identifier(q.curToken.Literal), q)

parseBoolean(q) == Ret(Boolean(curTokenIs(q, "TRUE")), q)

parseIntegerLiteral(q) ==
    LET r == ParseInt(q.curToken.Literal) IN
    IF ~r.ok
    THEN Ret(Nil, [q EXCEPT !.errors =
                      Append(@, <<"could not parse", q.curToken.Literal, "as integer">>)])
    ELSE Ret(IntegerLiteral(r.value), q)

parsePrefixExpression(q) ==
    Bind(Parse("parseExpression", nextToken(q), PREFIX), LAMBDA r :
        Ret(PrefixExpression(q.curToken.Literal, r.node), r.p))

parseInfixExpression(q, left) ==
    Bind(Parse("parseExpression", nextToken(q), curPrecedence(q)), LAMBDA r :
        Ret(InfixExpression(q.curToken.Literal, left, r.node), r.p))

parseGroupedExpression(q) ==
    Bind(Parse("parseExpression", nextToken(q), LOWEST), LAMBDA exp :
        LET e == expectPeek(exp.p, "RPAREN")
        IN IF ~e.ok THEN Ret(Nil, e.p) ELSE Ret(exp.node, e.p))

\* the loop of parseCallArguments
RECURSIVE parseCallArgumentsLoop(_, _)
parseCallArgumentsLoop(q, args) ==
    IF peekTokenIs(q, "COMMA")
    THEN IF OutOfSteps(q) THEN Ret(args, CutOff(q))
         ELSE Bind(Parse("parseExpression", nextToken(nextToken(Tick(q))), LOWEST),
                   LAMBDA r : parseCallArgumentsLoop(r.p, Append(args, r.node)))
    ELSE Ret(args, q)

parseCallArguments(q) ==
    IF peekTokenIs(q, "RPAREN")
    THEN Ret(Slice(<<>>), nextToken(q))
    ELSE Bind(Parse("parseExpression", nextToken(q), LOWEST), LAMBDA first :
         Bind(parseCallArgumentsLoop(first.p, <<first.node>>), LAMBDA rest :
             LET e == expectPeek(rest.p, "RPAREN")
             IN IF ~e.ok THEN Ret(NilSlice, e.p) ELSE Ret(Slice(rest.node), e.p)))

parseCallExpression(q, function) ==
    Bind(parseCallArguments(q), LAMBDA a :
        Ret(CallExpression(function, a.node), a.p))

\* the loop of parseFunctionParameters
RECURSIVE parseFunctionParametersLoop(_, _)
parseFunctionParametersLoop(q, identifiers) ==
    IF peekTokenIs(q, "COMMA")
    THEN IF OutOfSteps(q) THEN Ret(identifiers, CutOff(q))
         ELSE LET q2 == nextToken(nextToken(Tick(q)))
              IN parseFunctionParametersLoop(
                     q2, Append(identifiers, Identifier(q2.curToken.Literal)))
    ELSE Ret(identifiers, q)

parseFunctionParameters(q) ==
    IF peekTokenIs(q, "RPAREN")
    THEN Ret(Slice(<<>>), nextToken(q))
    ELSE LET q1 == nextToken(q) IN
         Bind(parseFunctionParametersLoop(q1, <<Identifier(q1.curToken.Literal)>>),
              LAMBDA rest :
                  LET e == expectPeek(rest.p, "RPAREN")
                  IN IF ~e.ok THEN Ret(NilSlice, e.p) ELSE Ret(Slice(rest.node), e.p))

parseFunctionLiteral(q) ==
    LET e1 == expectPeek(q, "LPAREN") IN
    IF ~e1.ok THEN Ret(Nil, e1.p)
    ELSE Bind(parseFunctionParameters(e1.p), LAMBDA params :
         LET e2 == expectPeek(params.p, "LBRACE") IN
         IF ~e2.ok THEN Ret(Nil, e2.p)
         ELSE Bind(Parse("parseBlockStatement", e2.p, LOWEST), LAMBDA body :
                  Ret(FunctionLiteral(params.node, body.node), body.p)))

\* parseIfExpression from the else on (lines 293-303)
parseIfExpressionElse(cond, cons) ==
    IF peekTokenIs(cons.p, "ELSE")
    THEN LET e4 == expectPeek(nextToken(cons.p), "LBRACE") IN
         IF ~e4.ok THEN Ret(Nil, e4.p)
         ELSE Bind(Parse("parseBlockStatement", e4.p, LOWEST), LAMBDA alt :
                  Ret(IfExpression(cond.node, cons.node, alt.node), alt.p))
    ELSE Ret(IfExpression(cond.node, cons.node, Nil), cons.p)

parseIfExpression(q) ==
    LET e1 == expectPeek(q, "LPAREN") IN
    IF ~e1.ok THEN Ret(Nil, e1.p)
    ELSE Bind(Parse("parseExpression", nextToken(e1.p), LOWEST), LAMBDA cond :
         LET e2 == expectPeek(cond.p, "RPAREN") IN
         IF ~e2.ok THEN Ret(Nil, e2.p)
         ELSE LET e3 == expectPeek(e2.p, "LBRACE") IN
              IF ~e3.ok THEN Ret(Nil, e3.p)
              ELSE Bind(Parse("parseBlockStatement", e3.p, LOWEST), LAMBDA cons :
                       parseIfExpressionElse(cond, cons)))

\* prefix := p.prefixParseFns[...]; prefix()
CallPrefix(fn, q) ==
    CASE fn = "parseIdentifier" -> parseIdentifier(q)
      [] fn = "parseIntegerLiteral" -> parseIntegerLiteral(q)
      [] fn = "parsePrefixExpression" -> parsePrefixExpression(q)
      [] fn = "parseBoolean" -> parseBoolean(q)
      [] fn = "parseGroupedExpression" -> parseGroupedExpression(q)
      [] fn = "parseIfExpression" -> parseIfExpression(q)
      [] fn = "parseFunctionLiteral" -> parseFunctionLiteral(q)

\* infix := p.infixParseFns[...]; infix(leftExp)
CallInfix(fn, q, left) ==
    CASE fn = "parseInfixExpression" -> parseInfixExpression(q, left)
      [] fn = "parseCallExpression" -> parseCallExpression(q, left)

\* parseExpression's loop with <= for <: equal precedences keep extending to the right
RECURSIVE parseExpressionLoopLeq(_, _, _)
parseExpressionLoopLeq(q, precedence, leftExp) ==
    IF ~peekTokenIs(q, "SEMICOLON") /\ precedence <= peekPrecedence(q)
    THEN IF q.peekToken.Type \notin DOMAIN q.infixParseFns
         THEN Ret(leftExp, q)
         ELSE IF OutOfSteps(q) THEN Ret(leftExp, CutOff(q))
         ELSE Bind(CallInfix(q.infixParseFns[q.peekToken.Type],
                             nextToken(Tick(q)), leftExp),
                   LAMBDA r : parseExpressionLoopLeq(r.p, precedence, r.node))
    ELSE Ret(leftExp, q)

\* the loop of parseExpression
RECURSIVE parseExpressionLoop(_, _, _)
parseExpressionLoop(q, precedence, leftExp) ==
    IF ~peekTokenIs(q, "SEMICOLON") /\ precedence < peekPrecedence(q)
    THEN IF q.peekToken.Type \notin DOMAIN q.infixParseFns
         THEN Ret(leftExp, q)
         ELSE IF OutOfSteps(q) THEN Ret(leftExp, CutOff(q))
         ELSE Bind(CallInfix(q.infixParseFns[q.peekToken.Type],
                             nextToken(Tick(q)), leftExp),
                   LAMBDA r : parseExpressionLoop(r.p, precedence, r.node))
    ELSE Ret(leftExp, q)

parseExpression(q, precedence) ==
    IF OutOfSteps(q) THEN Ret(Nil, CutOff(q))
    ELSE IF q.curToken.Type \notin DOMAIN q.prefixParseFns
    THEN Ret(Nil, noPrefixParseFnError(Tick(q), q.curToken.Type))
    ELSE Bind(CallPrefix(q.prefixParseFns[q.curToken.Type], Tick(q)), LAMBDA left :
             parseExpressionLoop(left.p, precedence, left.node))

\* if p.peekTokenIs(token.SEMICOLON) { p.nextToken() }
skipSemicolon(q) == IF peekTokenIs(q, "SEMICOLON") THEN nextToken(q) ELSE q

parseLetStatement(q) ==
    LET e1 == expectPeek(q, "IDENT") IN
    IF ~e1.ok THEN Ret(NilLetStatement, e1.p)
    ELSE LET name == Identifier(e1.p.curToken.Literal)
             e2 == expectPeek(e1.p, "ASSIGN")
         IN IF ~e2.ok THEN Ret(NilLetStatement, e2.p)
            ELSE Bind(Parse("parseExpression", nextToken(e2.p), LOWEST), LAMBDA v :
                     Ret(LetStatement(name, v.node), skipSemicolon(v.p)))

parseReturnStatement(q) ==
    Bind(Parse("parseExpression", nextToken(q), LOWEST), LAMBDA v :
        Ret(ReturnStatement(v.node), skipSemicolon(v.p)))

parseExpressionStatement(q) ==
    Bind(Parse("parseExpression", q, LOWEST), LAMBDA e :
        Ret(ExpressionStatement(e.node), skipSemicolon(e.p)))

parseStatement(q) ==
    CASE q.curToken.Type = "LET" -> parseLetStatement(q)
      [] q.curToken.Type = "RETURN" -> parseReturnStatement(q)
      [] OTHER -> parseExpressionStatement(q)

\* parseBlockStatement's loop without the test for EOF
RECURSIVE parseBlockStatementLoopNoEOF(_, _)
parseBlockStatementLoopNoEOF(q, stmts) ==
    IF ~curTokenIs(q, "RBRACE")
    THEN IF OutOfSteps(q) THEN Ret(stmts, CutOff(q))
         ELSE Bind(Parse("parseStatement", Tick(q), LOWEST), LAMBDA s :
                  parseBlockStatementLoopNoEOF(
                      nextToken(s.p),
                      IF s.node # Nil THEN Append(stmts, s.node) ELSE stmts))
    ELSE Ret(stmts, q)

\* the loop of parseBlockStatement
RECURSIVE parseBlockStatementLoop(_, _)
parseBlockStatementLoop(q, stmts) ==
    IF ~curTokenIs(q, "RBRACE") /\ ~curTokenIs(q, "EOF")
    THEN IF OutOfSteps(q) THEN Ret(stmts, CutOff(q))
         ELSE Bind(Parse("parseStatement", Tick(q), LOWEST), LAMBDA s :
                  parseBlockStatementLoop(
                      nextToken(s.p),
                      IF s.node # Nil THEN Append(stmts, s.node) ELSE stmts))
    ELSE Ret(stmts, q)

parseBlockStatement(q) ==
    Bind(parseBlockStatementLoop(nextToken(q), <<>>), LAMBDA r :
        Ret(BlockStatement(r.node), r.p))

Parse(method, q0, precedence) ==
    Bind(q0, LAMBDA q :
        CASE method = "parseExpression" -> parseExpression(q, precedence)
          [] method = "parseStatement" -> parseStatement(q)
          [] method = "parseBlockStatement" -> parseBlockStatement(q))

\* one iteration of the loop of ParseProgram: [node: the statements, p]
ParseProgramIteration(q, stmts) ==
    Bind(Parse("parseStatement", q, LOWEST), LAMBDA s :
        Ret(IF s.node # Nil THEN Append(stmts, s.node) ELSE stmts, nextToken(s.p)))

\* ParseProgram as a whole, for the callers that evaluate its result
RECURSIVE ParseProgramFrom(_, _)
ParseProgramFrom(q, stmts) ==
    IF q.curToken.Type # "EOF" /\ ~OutOfSteps(q)
    THEN Bind(ParseProgramIteration(Tick(q), stmts), LAMBDA r :
             ParseProgramFrom(r.p, r.node))
    ELSE Ret(stmts, q)

(***************************************************************************)
(* Token streams handed to the parser.                                     *)
(***************************************************************************)
TokenAlphabet ==
    {T(t) : t \in DOMAIN FixedLexeme}
        \cup {TIdent("a"), TInt(<<"5">>), TString(<<"s">>)}

\* every stream over the whole alphabet, up to MaxLen tokens
RECURSIVE StreamsOfLen(_)
StreamsOfLen(n) ==
    IF n = 0 THEN {<<>>}
    ELSE {Append(s, t) : s \in StreamsOfLen(n - 1), t \in TokenAlphabet}
AllStreams == UNION {StreamsOfLen(k) : k \in 0..MaxLen}

BinaryOperators == {"EQ", "NOT_EQ", "LT", "GT", "PLUS", "MINUS", "SLASH", "ASTERISK"}

\* a op1 b op2 c
Chain(op1, op2) == <<TIdent("a"), T(op1), TIdent("b"), T(op2), TIdent("c")>>
Chains == {Chain(op1, op2) : op1, op2 \in BinaryOperators}

SamplePrograms ==
    { \* let a = 5; return a;
      <<T("LET"), TIdent("a"), T("ASSIGN"), TInt(<<"5">>), T("SEMICOLON"),
        T("RETURN"), TIdent("a"), T("SEMICOLON")>>,
      \* if (a < 5) { return a } else { b }
      <<T("IF"), T("LPAREN"), TIdent("a"), T("LT"), TInt(<<"5">>), T("RPAREN"),
        T("LBRACE"), T("RETURN"), TIdent("a"), T("RBRACE"),
        T("ELSE"), T("LBRACE"), TIdent("b"), T("RBRACE")>>,
      \* fn(a, b) { a + b }(5, a)
      <<T("FUNCTION"), T("LPAREN"), TIdent("a"), T("COMMA"), TIdent("b"), T("RPAREN"),
        T("LBRACE"), TIdent("a"), T("PLUS"), TIdent("b"), T("RBRACE"),
        T("LPAREN"), TInt(<<"5">>), T("COMMA"), TIdent("a"), T("RPAREN")>>,
      \* !-(a + 5) * b
      <<T("BANG"), T("MINUS"), T("LPAREN"), TIdent("a"), T("PLUS"), TInt(<<"5">>),
        T("RPAREN"), T("ASTERISK"), TIdent("b")>>,
      \* let f = fn(a) { if (a) { return a; } 5 }; f(a)
      <<T("LET"), TIdent("f"), T("ASSIGN"), T("FUNCTION"), T("LPAREN"), TIdent("a"),
        T("RPAREN"), T("LBRACE"), T("IF"), T("LPAREN"), TIdent("a"), T("RPAREN"),
        T("LBRACE"), T("RETURN"), TIdent("a"), T("SEMICOLON"), T("RBRACE"),
        TInt(<<"5">>), T("RBRACE"), T("SEMICOLON"),
        TIdent("f"), T("LPAREN"), TIdent("a"), T("RPAREN")>> }

\* a program cut off after any token: blocks and parentheses left open
Prefixes(s) == {SubSeq(s, 1, n) : n \in 0..Len(s)}
\* a program with any one token replaced by any token
Substitutions(s) == {[s EXCEPT ![i] = t] : i \in 1..Len(s), t \in TokenAlphabet}

\* INT lexemes: every string of 1..MaxDigits decimal digits, and 1<<63
MaxDigits == 3
RECURSIVE DigitStrings(_)
DigitStrings(n) ==
    IF n = 0 THEN {<<>>}
    ELSE {Append(ds, d) : ds \in DigitStrings(n - 1), d \in DOMAIN DigitVal}
IntLiterals == UNION {DigitStrings(n) : n \in 1..MaxDigits}
OverflowLiteral ==
    <<"9","2","2","3","3","7","2","0","3","6","8","5","4","7","7","5","8","0","8">>
IntegerInputs == {<<TInt(lit)>> : lit \in IntLiterals \cup {OverflowLiteral}}

Inputs ==
    AllStreams \cup Chains \cup IntegerInputs
        \cup UNION {Prefixes(s) \cup Substitutions(s) : s \in SamplePrograms}

(***************************************************************************)
(* The parser's state machine: New, then the loop of ParseProgram.         *)
(***************************************************************************)
EvalIdle ==
    /\ heap = <<>>
    /\ idx = 0
    /\ result = Nil
    /\ epc = "idle"

\* no Parser constructed yet: the zero value of the struct
NoParser ==
    [l |-> Lexer(<<>>), curToken |-> Tok("", <<>>), peekToken |-> Tok("", <<>>),
     errors |-> <<>>, prefixParseFns |-> <<>>, infixParseFns |-> <<>>,
     steps |-> 0, diverged |-> FALSE]

InitParser ==
    /\ tokens = <<>>
    /\ p = NoParser
    /\ program = <<>>
    /\ ppc = "new"
    /\ EvalIdle

\* l := lexer.New(input); p := parser.New(l)
NewParser ==
    /\ ppc = "new"
    /\ \E input \in Inputs :
           /\ tokens' = input
           /\ p' = New(Lexer(input))
    /\ ppc' = "parse"
    /\ UNCHANGED <<program, evalVars>>

\* for p.curToken.Type != token.EOF { stmt := p.parseStatement(); ...; p.nextToken() }
ParseProgramLoop ==
    /\ ppc = "parse"
    /\ p.curToken.Type # "EOF"
    /\ ~p.diverged
    /\ IF OutOfSteps(p)
       THEN p' = CutOff(p) /\ program' = program
       ELSE LET r == ParseProgramIteration(Tick(p), program)
            IN /\ p' = r.p
               /\ program' = r.node
    /\ UNCHANGED <<tokens, ppc, evalVars>>

\* return program
ParseProgramReturn ==
    /\ ppc = "parse"
    /\ p.curToken.Type = "EOF"
    /\ ppc' = "done"
    /\ UNCHANGED <<tokens, p, program, evalVars>>

NextParser == NewParser \/ ParseProgramLoop \/ ParseProgramReturn

SpecParser == InitParser /\ [][NextParser]_vars

\* ParseProgram is one sequential call: it runs until it returns
FairSpecParser == SpecParser /\ WF_vars(NextParser)

\* ParseProgram returns (under FairSpecParser)
ParseProgramReturns == <>(ppc = "done")

(***************************************************************************)
(* Objects.  Type is what Type() returns; addr identifies the allocation,  *)
(* so that == on two interface values holding pointers is equality of      *)
(* addr.  The values in the model stay far from the ends of int64.         *)
(***************************************************************************)
\* the nil object.Object
NilObj == [Type |-> "nil"]

NULL == [Type |-> "NULL", addr |-> 1]
TRUEObj == [Type |-> "BOOLEAN", addr |-> 2, Bool |-> TRUE]
FALSEObj == [Type |-> "BOOLEAN", addr |-> 3, Bool |-> FALSE]
\* the first address handed out after the package variables are initialised
FirstAddr == 20

IntegerObj(v) == [Type |-> "INTEGER", addr |-> 0, Int |-> v]
StringObj(chars) == [Type |-> "STRING", addr |-> 0, Str |-> chars]
ReturnValueObj(v) == [Type |-> "RETURN_VALUE", addr |-> 0, Value |-> v]
ErrorObj(msg) == [Type |-> "ERROR", addr |-> 0, Message |-> msg]
FunctionObj(params, env, body) ==
    [Type |-> "FUNCTION", addr |-> 0, Parameters |-> params, Env |-> env, Body |-> body]
ArrayObj(elems) == [Type |-> "ARRAY", addr |-> 0, Elements |-> elems]
HashObj(pairs) == [Type |-> "HASH", addr |-> 0, Pairs |-> pairs]

\* a run-time panic of the Go program: it unwinds every caller
PanicObj(msg) == [Type |-> "PANIC", Message |-> msg]
IsPanic(obj) == obj.Type = "PANIC"

\* [val, st]: the result of a function of the evaluator and the heap it leaves
Ev(v, st) == [val |-> v, st |-> st]

\* &object.T{...}: a fresh allocation
Alloc(obj, st) == Ev([obj EXCEPT !.addr = st.next], [st EXCEPT !.next = @ + 1])

\* a == b on two object.Object values
SameObject(a, b) ==
    IF a.Type = "nil" \/ b.Type = "nil" THEN a.Type = b.Type ELSE a.addr = b.addr

(***************************************************************************)
(* Environments.  st.envs[e] is the Environment at address e; outer = 0 is *)
(* the nil outer.                                                          *)
(***************************************************************************)
NewEnvironment(st) ==
    [env |-> Len(st.envs) + 1,
     st |-> [st EXCEPT !.envs = Append(@, [store |-> <<>>, outer |-> 0])]]

\* NewEnclosedEnvironment with no new Environment: the callee runs in outer itself
NewEnclosedEnvironmentShared(outer, st) == [env |-> outer, st |-> st]

NewEnclosedEnvironment(outer, st) ==
    [env |-> Len(st.envs) + 1,
     st |-> [st EXCEPT !.envs = Append(@, [store |-> <<>>, outer |-> outer])]]

\* Get asking the outer environments before its own store
RECURSIVE GetOuterFirst(_, _, _)
GetOuterFirst(envs, e, name) ==
    LET outer == IF envs[e].outer # 0 THEN GetOuterFirst(envs, envs[e].outer, name)
                 ELSE [obj |-> NilObj, ok |-> FALSE]
    IN IF outer.ok THEN outer
       ELSE IF name \in DOMAIN envs[e].store
       THEN [obj |-> envs[e].store[name], ok |-> TRUE]
       ELSE [obj |-> NilObj, ok |-> FALSE]

\* [obj, ok]
RECURSIVE Get(_, _, _)
Get(envs, e, name) ==
    IF name \in DOMAIN envs[e].store
    THEN [obj |-> envs[e].store[name], ok |-> TRUE]
    ELSE IF envs[e].outer # 0
    THEN Get(envs, envs[e].outer, name)
    ELSE [obj |-> NilObj, ok |-> FALSE]

\* the environment of the chain from e outwards that binds name, e when none does
RECURSIVE Holder(_, _, _)
Holder(envs, e, name) ==
    IF name \in DOMAIN envs[e].store \/ envs[e].outer = 0 THEN e
    ELSE Holder(envs, envs[e].outer, name)

\* Set with a shadow-write: it writes where the name is bound, outer environments too
SetShadowWrite(e, name, val, st) ==
    LET holder == IF name \in DOMAIN st.envs[e].store THEN e
                  ELSE IF name \in DOMAIN st.envs[Holder(st.envs, e, name)].store
                  THEN Holder(st.envs, e, name) ELSE e
    IN [st EXCEPT !.envs[holder].store = (name :> val) @@ @]

Set(e, name, val, st) ==
    [st EXCEPT !.envs[e].store = (name :> val) @@ @]

\* the heap before any allocation; calls counts the user functions applied
EmptyHeap(ord) ==
    [envs |-> <<>>, next |-> FirstAddr, depth |-> 0, calls |-> 0, out |-> <<>>,
     order |-> ord]

(***************************************************************************)
(* The evaluator's functions that do not recurse.                          *)
(***************************************************************************)
Op(t) == FixedLexeme[t]

newError(msg, st) == Alloc(ErrorObj(msg), st)

isError(obj) == obj.Type # "nil" /\ obj.Type = "ERROR"

\* nativeBoolToBooleanObject allocating a Boolean instead of returning TRUE or FALSE
nativeBoolToBooleanObjectFresh(input) == [Type |-> "BOOLEAN", addr |-> 0, Bool |-> input]

nativeBoolToBooleanObject(input) == IF input THEN TRUEObj ELSE FALSEObj

isTruthy(obj) ==
    CASE SameObject(obj, NULL) -> FALSE
      [] SameObject(obj, TRUEObj) -> TRUE
      [] SameObject(obj, FALSEObj) -> FALSE
      [] OTHER -> TRUE

evalBangOperatorExpression(right) ==
    CASE SameObject(right, TRUEObj) -> FALSEObj
      [] SameObject(right, FALSEObj) -> TRUEObj
      [] SameObject(right, NULL) -> TRUEObj
      [] OTHER -> FALSEObj

NilDereference(st) == Ev(PanicObj(<<"invalid memory address or nil pointer dereference">>), st)

evalMinusPrefixOperatorExpression(right, st) ==
    IF right.Type = "nil" THEN NilDereference(st)
    ELSE IF right.Type # "INTEGER"
    THEN newError(<<"unknown operator:", Op("MINUS"), right.Type>>, st)
    ELSE Alloc(IntegerObj(-right.Int), st)

evalPrefixExpression(operator, right, st) ==
    CASE operator = Op("BANG") -> Ev(evalBangOperatorExpression(right), st)
      [] operator = Op("MINUS") -> evalMinusPrefixOperatorExpression(right, st)
      [] OTHER -> IF right.Type = "nil" THEN NilDereference(st)
                  ELSE newError(<<"unknown operator:", operator, right.Type>>, st)

\* Go's / on integers truncates toward zero
Abs(x) == IF x < 0 THEN -x ELSE x
Quo(a, b) ==
    IF (a < 0) = (b < 0) THEN Abs(a) \div Abs(b) ELSE -(Abs(a) \div Abs(b))

evalIntegerInfixExpression(operator, left, right, st) ==
    LET leftVal == left.Int
        rightVal == right.Int
    IN CASE operator = Op("PLUS") -> Alloc(IntegerObj(leftVal + rightVal), st)
         [] operator = Op("MINUS") -> Alloc(IntegerObj(leftVal - rightVal), st)
         [] operator = Op("ASTERISK") -> Alloc(IntegerObj(leftVal * rightVal), st)
         [] operator = Op("SLASH") ->
                IF rightVal = 0
                THEN Ev(PanicObj(<<"integer divide by zero">>), st)
                ELSE Alloc(IntegerObj(Quo(leftVal, rightVal)), st)
         [] operator = Op("LT") -> Ev(nativeBoolToBooleanObject(leftVal < rightVal), st)
         [] operator = Op("GT") -> Ev(nativeBoolToBooleanObject(leftVal > rightVal), st)
         [] operator = Op("EQ") -> Ev(nativeBoolToBooleanObject(leftVal = rightVal), st)
         [] operator = Op("NOT_EQ") -> Ev(nativeBoolToBooleanObject(leftVal # rightVal), st)
         [] OTHER -> newError(<<"unknown operator:", left.Type, operator, right.Type>>, st)

evalStringInfixExpression(operator, left, right, st) ==
    IF operator # Op("PLUS")
    THEN newError(<<"unknown operator:", left.Type, operator, right.Type>>, st)
    ELSE Alloc(StringObj(left.Str \o right.Str), st)

\* evalInfixExpression with the type mismatch case before the == and != cases
evalInfixExpressionMismatchFirst(operator, left, right, st) ==
    IF left.Type = "nil" THEN NilDereference(st)
    ELSE IF left.Type = "INTEGER" /\ right.Type = "nil" THEN NilDereference(st)
    ELSE IF left.Type = "INTEGER" /\ right.Type = "INTEGER"
    THEN evalIntegerInfixExpression(operator, left, right, st)
    ELSE IF left.Type = "STRING" /\ right.Type = "nil" THEN NilDereference(st)
    ELSE IF left.Type = "STRING" /\ right.Type = "STRING"
    THEN evalStringInfixExpression(operator, left, right, st)
    ELSE IF right.Type = "nil" THEN NilDereference(st)
    ELSE IF left.Type # right.Type
    THEN newError(<<"type mismatch:", left.Type, operator, right.Type>>, st)
    ELSE IF operator = Op("EQ")
    THEN Ev(nativeBoolToBooleanObject(SameObject(left, right)), st)
    ELSE IF operator = Op("NOT_EQ")
    THEN Ev(nativeBoolToBooleanObject(~SameObject(left, right)), st)
    ELSE newError(<<"unknown operator:", left.Type, operator, right.Type>>, st)

\* the cases of the switch in order; Type() on a nil interface panics
evalInfixExpression(operator, left, right, st) ==
    IF left.Type = "nil" THEN NilDereference(st)
    ELSE IF left.Type = "INTEGER" /\ right.Type = "nil" THEN NilDereference(st)
    ELSE IF left.Type = "INTEGER" /\ right.Type = "INTEGER"
    THEN evalIntegerInfixExpression(operator, left, right, st)
    ELSE IF left.Type = "STRING" /\ right.Type = "nil" THEN NilDereference(st)
    ELSE IF left.Type = "STRING" /\ right.Type = "STRING"
    THEN evalStringInfixExpression(operator, left, right, st)
    ELSE IF operator = Op("EQ")
    THEN Ev(nativeBoolToBooleanObject(SameObject(left, right)), st)
    ELSE IF operator = Op("NOT_EQ")
    THEN Ev(nativeBoolToBooleanObject(~SameObject(left, right)), st)
    ELSE IF right.Type = "nil" THEN NilDereference(st)
    ELSE IF left.Type # right.Type
    THEN newError(<<"type mismatch:", left.Type, operator, right.Type>>, st)
    ELSE newError(<<"unknown operator:", left.Type, operator, right.Type>>, st)

\* evalArrayIndexExpression with idx >= max for idx > max
evalArrayIndexExpressionGeq(array, index) ==
    LET i == index.Int
        max == Len(array.Elements) - 1
    IN IF i < 0 \/ i >= max THEN NULL ELSE array.Elements[i + 1]

evalArrayIndexExpression(array, index) ==
    LET i == index.Int
        max == Len(array.Elements) - 1
    IN IF i < 0 \/ i > max THEN NULL ELSE array.Elements[i + 1]

\* object.Hashable and HashKey(): Integer, Boolean and String
Hashable(obj) == obj.Type \in {"INTEGER", "BOOLEAN", "STRING"}
HashKey(obj) ==
    CASE obj.Type = "INTEGER" -> <<"INTEGER", <<obj.Int>>>>
      [] obj.Type = "BOOLEAN" -> <<"BOOLEAN", <<IF obj.Bool THEN 1 ELSE 0>>>>
      [] obj.Type = "STRING" -> <<"STRING", obj.Str>>

evalHashIndexExpression(hash, index, st) ==
    IF ~Hashable(index)
    THEN IF index.Type = "nil" THEN NilDereference(st)
         ELSE newError(<<"unusable as hash key:", index.Type>>, st)
    ELSE IF HashKey(index) \notin DOMAIN hash.Pairs
    THEN Ev(NULL, st)
    ELSE Ev(hash.Pairs[HashKey(index)].Value, st)

evalIndexExpression(left, index, st) ==
    IF left.Type = "nil" THEN NilDereference(st)
    ELSE IF left.Type = "ARRAY" /\ index.Type = "nil" THEN NilDereference(st)
    ELSE IF left.Type = "ARRAY" /\ index.Type = "INTEGER"
    THEN Ev(evalArrayIndexExpression(left, index), st)
    ELSE IF left.Type = "HASH"
    THEN evalHashIndexExpression(left, index, st)
    ELSE newError(<<"index operator not supported:", left.Type>>, st)

unwrapReturnValue(obj) ==
    IF obj.Type = "RETURN_VALUE" THEN obj.Value ELSE obj

(***************************************************************************)
(* The builtins table and the native functions, after section 4.4 of the   *)
(* specification: their Go source is not part of the sources read here.    *)
(***************************************************************************)
BuiltinAddr ==
    ("len" :> 4) @@ ("first" :> 5) @@ ("last" :> 6) @@ ("rest" :> 7)
        @@ ("push" :> 8) @@ ("puts" :> 9)

builtins ==
    [name \in {<<n>> : n \in DOMAIN BuiltinAddr} |->
        [Type |-> "BUILTIN", addr |-> BuiltinAddr[name[1]], Name |-> name[1]]]

WrongArguments(fn, st) == newError(<<"wrong arguments to", fn.Name>>, st)

ApplyBuiltin(fn, args, st) ==
    LET isArray(i) == Len(args) >= i /\ args[i].Type = "ARRAY"
        n == IF isArray(1) THEN Len(args[1].Elements) ELSE 0
    IN CASE fn.Name = "len" ->
                IF Len(args) = 1 /\ args[1].Type = "STRING"
                THEN Alloc(IntegerObj(Len(args[1].Str)), st)
                ELSE IF Len(args) = 1 /\ isArray(1)
                THEN Alloc(IntegerObj(n), st)
                ELSE WrongArguments(fn, st)
         [] fn.Name = "first" ->
                IF Len(args) = 1 /\ isArray(1)
                THEN Ev(IF n > 0 THEN args[1].Elements[1] ELSE NULL, st)
                ELSE WrongArguments(fn, st)
         [] fn.Name = "last" ->
                IF Len(args) = 1 /\ isArray(1)
                THEN Ev(IF n > 0 THEN args[1].Elements[n] ELSE NULL, st)
                ELSE WrongArguments(fn, st)
         [] fn.Name = "rest" ->
                IF Len(args) = 1 /\ isArray(1)
                THEN IF n > 0 THEN Alloc(ArrayObj(Tail(args[1].Elements)), st)
                     ELSE Ev(NULL, st)
                ELSE WrongArguments(fn, st)
         [] fn.Name = "push" ->
                IF Len(args) = 2 /\ isArray(1)
                THEN Alloc(ArrayObj(Append(args[1].Elements, args[2])), st)
                ELSE WrongArguments(fn, st)
         [] fn.Name = "puts" -> Ev(NULL, [st EXCEPT !.out = @ \o args])

(***************************************************************************)
(* Eval.  Every function returns [val, st]; a panic unwinds through Do.    *)
(* The recursion of the evaluator goes through Eval.                       *)
(***************************************************************************)
\* the call depth at which the goroutine's stack is exhausted
MaxDepth == 4

Do(v, F(_)) == Bind(v, LAMBDA r : IF IsPanic(r.val) THEN r ELSE F(r))

RECURSIVE Eval(_, _, _)

evalIdentifier(node, env, st) ==
    LET found == Get(st.envs, env, node.Name)
    IN IF found.ok THEN Ev(found.obj, st)
       ELSE IF node.Name \in DOMAIN builtins THEN Ev(builtins[node.Name], st)
       ELSE newError(<<"identifier not found:", node.Name>>, st)

\* the loop of evalBlockStatement from statement i on
RECURSIVE evalBlockStatementLoop(_, _, _, _, _)
evalBlockStatementLoop(stmts, i, env, res, st) ==
    IF i > Len(stmts) THEN Ev(res, st)
    ELSE Do(Eval(stmts[i], env, st), LAMBDA r :
             IF r.val.Type # "nil" /\ r.val.Type \in {"RETURN_VALUE", "ERROR"}
             THEN r
             ELSE evalBlockStatementLoop(stmts, i + 1, env, r.val, r.st))

\* evalBlockStatement giving the block an Environment of its own
evalBlockStatementScoped(block, env, st) ==
    LET new == NewEnclosedEnvironment(env, st)
    IN evalBlockStatementLoop(block.Statements, 1, new.env, NilObj, new.st)

evalBlockStatement(block, env, st) ==
    evalBlockStatementLoop(block.Statements, 1, env, NilObj, st)

evalIfExpression(ie, env, st) ==
    Do(Eval(ie.Condition, env, st), LAMBDA condition :
        IF isError(condition.val) THEN condition
        ELSE IF isTruthy(condition.val) THEN Eval(ie.Consequence, env, condition.st)
        ELSE IF ie.Alternative # Nil THEN Eval(ie.Alternative, env, condition.st)
        ELSE Ev(NULL, condition.st))

\* a []object.Object
Objects(elems) == [Type |-> "[]object.Object", elems |-> elems]

\* the loop of evalExpressions from expression i on
RECURSIVE evalExpressionsLoop(_, _, _, _, _)
evalExpressionsLoop(exps, i, env, res, st) ==
    IF i > Len(exps) THEN Ev(Objects(res), st)
    ELSE Do(Eval(exps[i], env, st), LAMBDA evaluated :
             IF isError(evaluated.val) THEN Ev(Objects(<<evaluated.val>>), evaluated.st)
             ELSE evalExpressionsLoop(exps, i + 1, env,
                                      Append(res, evaluated.val), evaluated.st))

evalExpressions(exps, env, st) == evalExpressionsLoop(exps.elems, 1, env, <<>>, st)

\* the loop of extendFunctionEnv from parameter paramIdx on
RECURSIVE extendFunctionEnvLoop(_, _, _, _, _)
extendFunctionEnvLoop(params, paramIdx, args, env, st) ==
    IF paramIdx > Len(params) THEN [env |-> env, st |-> st, panic |-> FALSE]
    ELSE IF paramIdx > Len(args) THEN [env |-> env, st |-> st, panic |-> TRUE]
    ELSE extendFunctionEnvLoop(params, paramIdx + 1, args, env,
                               Set(env, params[paramIdx].Name, args[paramIdx], st))

extendFunctionEnv(fn, args, st) ==
    LET new == NewEnclosedEnvironment(fn.Env, st)
    IN extendFunctionEnvLoop(fn.Parameters.elems, 1, args, new.env, new.st)

applyFunction(fn, args, st) ==
    CASE fn.Type = "FUNCTION" ->
            Bind(extendFunctionEnv(fn, args, [st EXCEPT !.calls = @ + 1]), LAMBDA extended :
                IF extended.panic
                THEN Ev(PanicObj(<<"index out of range">>), extended.st)
                ELSE IF st.depth >= MaxDepth
                THEN Ev(PanicObj(<<"stack overflow">>), extended.st)
                ELSE Do(Eval(fn.Body, extended.env,
                             [extended.st EXCEPT !.depth = @ + 1]),
                        LAMBDA evaluated :
                            Ev(unwrapReturnValue(evaluated.val),
                               [evaluated.st EXCEPT !.depth = @ - 1])))
      [] fn.Type = "BUILTIN" -> ApplyBuiltin(fn, args, st)
      [] fn.Type = "nil" -> NilDereference(st)
      [] OTHER -> newError(<<"not a function:", fn.Type>>, st)

\* the pairs of node.Pairs in the order the range over the map visits them
RangeOrder(pairs, ord) ==
    LET keep == SelectSeq(ord, LAMBDA k : k <= Len(pairs))
    IN [i \in 1..Len(pairs) |-> pairs[keep[i]]]

\* the loop of evalHashLiteral from the i-th visited pair on
RECURSIVE evalHashLiteralLoop(_, _, _, _, _)
evalHashLiteralLoop(visit, i, env, pairs, st) ==
    IF i > Len(visit) THEN Alloc(HashObj(pairs), st)
    ELSE Do(Eval(visit[i].Key, env, st), LAMBDA key :
             IF isError(key.val) THEN key
             ELSE IF ~Hashable(key.val)
             THEN IF key.val.Type = "nil" THEN NilDereference(key.st)
                  ELSE newError(<<"unusable as hash key:", key.val.Type>>, key.st)
             ELSE Do(Eval(visit[i].Value, env, key.st), LAMBDA value :
                      IF isError(value.val) THEN value
                      ELSE evalHashLiteralLoop(visit, i + 1, env,
                               (HashKey(key.val) :> [Key |-> key.val, Value |-> value.val])
                                   @@ pairs,
                               value.st)))

evalHashLiteral(node, env, st) ==
    evalHashLiteralLoop(RangeOrder(node.Pairs, st.order), 1, env, <<>>, st)

EvalPrefix(node, env, st) ==
    Do(Eval(node.Right, env, st), LAMBDA right :
        IF isError(right.val) THEN right
        ELSE evalPrefixExpression(node.Operator, right.val, right.st))

\* the InfixExpression case without the isError check on the left operand
EvalInfixUnchecked(node, env, st) ==
    Do(Eval(node.Left, env, st), LAMBDA left :
        Do(Eval(node.Right, env, left.st), LAMBDA right :
            IF isError(right.val) THEN right
            ELSE evalInfixExpression(node.Operator, left.val, right.val, right.st)))

EvalInfix(node, env, st) ==
    Do(Eval(node.Left, env, st), LAMBDA left :
        IF isError(left.val) THEN left
        ELSE Do(Eval(node.Right, env, left.st), LAMBDA right :
                 IF isError(right.val) THEN right
                 ELSE evalInfixExpression(node.Operator, left.val, right.val, right.st)))

EvalIndex(node, env, st) ==
    Do(Eval(node.Left, env, st), LAMBDA left :
        IF isError(left.val) THEN left
        ELSE Do(Eval(node.Index, env, left.st), LAMBDA index :
                 IF isError(index.val) THEN index
                 ELSE evalIndexExpression(left.val, index.val, index.st)))

EvalArray(node, env, st) ==
    Do(evalExpressions(node.Elements, env, st), LAMBDA elements :
        IF Len(elements.val.elems) = 1 /\ isError(elements.val.elems[1])
        THEN Ev(elements.val.elems[1], elements.st)
        ELSE Alloc(ArrayObj(elements.val.elems), elements.st))

EvalCall(node, env, st) ==
    Do(Eval(node.Function, env, st), LAMBDA function :
        IF isError(function.val) THEN function
        ELSE Do(evalExpressions(node.Arguments, env, function.st), LAMBDA args :
                 IF Len(args.val.elems) = 1 /\ isError(args.val.elems[1])
                 THEN Ev(args.val.elems[1], args.st)
                 ELSE applyFunction(function.val, args.val.elems, args.st)))

EvalReturn(node, env, st) ==
    Do(Eval(node.ReturnValue, env, st), LAMBDA val :
        IF isError(val.val) THEN val
        ELSE Alloc(ReturnValueObj(val.val), val.st))

EvalLet(node, env, st) ==
    IF node.nilptr THEN NilDereference(st)
    ELSE Do(Eval(node.Value, env, st), LAMBDA val :
             IF isError(val.val) THEN val
             ELSE Ev(NilObj, Set(env, node.LetName.Name, val.val, val.st)))

Eval(node0, env, st0) ==
    Bind(<<node0, st0>>, LAMBDA in :
        LET node == in[1]
            st == in[2]
        IN CASE node.node = "ExpressionStatement" -> Eval(node.Expression, env, st)
             [] node.node = "IntegerLiteral" -> Alloc(IntegerObj(node.Int), st)
             [] node.node = "StringLiteral" -> Alloc(StringObj(node.Str), st)
             [] node.node = "Boolean" -> Ev(nativeBoolToBooleanObject(node.Bool), st)
             [] node.node = "FunctionLiteral" ->
                    Alloc(FunctionObj(node.Parameters, env, node.Body), st)
             [] node.node = "ArrayLiteral" -> EvalArray(node, env, st)
             [] node.node = "HashLiteral" -> evalHashLiteral(node, env, st)
             [] node.node = "PrefixExpression" -> EvalPrefix(node, env, st)
             [] node.node = "InfixExpression" -> EvalInfix(node, env, st)
             [] node.node = "IndexExpression" -> EvalIndex(node, env, st)
             [] node.node = "BlockStatement" -> evalBlockStatement(node, env, st)
             [] node.node = "IfExpression" -> evalIfExpression(node, env, st)
             [] node.node = "CallExpression" -> EvalCall(node, env, st)
             [] node.node = "ReturnStatement" -> EvalReturn(node, env, st)
             [] node.node = "LetStatement" -> EvalLet(node, env, st)
             [] node.node = "Identifier" -> evalIdentifier(node, env, st)
             [] OTHER -> Ev(NilObj, st))

(***************************************************************************)
(* The programs evaluated.  They are written as the trees the parser of    *)
(* the evaluator's snapshot builds for the source text in the comments.    *)
(***************************************************************************)
Var(name) == Identifier(<<name>>)
Lit(v) == IntegerLiteral(v)
Str(c) == StringLiteral(<<c>>)
Not(e) == PrefixExpression(Op("BANG"), e)
Neg(e) == PrefixExpression(Op("MINUS"), e)
Bin(op, l, r) == InfixExpression(Op(op), l, r)
Stmt(e) == ExpressionStatement(e)
LetS(name, e) == LetStatement(Var(name), e)
RetS(e) == ReturnStatement(e)
If(c, stmts) == IfExpression(c, BlockStatement(stmts), Nil)
IfElse(c, stmts, alt) == IfExpression(c, BlockStatement(stmts), BlockStatement(alt))
Fn(params, stmts) ==
    FunctionLiteral(Slice([i \in 1..Len(params) |-> Var(params[i])]), BlockStatement(stmts))
Call(f, args) == CallExpression(f, Slice(args))
Arr(elems) == ArrayLiteral(Slice(elems))
Pair(k, v) == [Key |-> k, Value |-> v]
Index(l, i) == IndexExpression(l, i)

\* fn() { let mark = 1 }(): evaluating it leaves an environment that binds mark
Mark == Call(Fn(<<>>, <<LetS("mark", Lit(1))>>), <<>>)

Atoms ==
    {Lit(0), Lit(1), Neg(Lit(7)), Boolean(TRUE), Boolean(FALSE), Str("s"), Var("nope"),
     If(Boolean(FALSE), <<Lit(1)>>), Call(Fn(<<>>, <<>>), <<>>), Arr(<<Lit(1)>>),
     Fn(<<"x">>, <<Stmt(Var("x"))>>)}

\* a op b and op a over the atoms
OperatorPrograms ==
    {<<Stmt(Bin(op, a, b))>> : op \in BinaryOperators, a \in Atoms, b \in Atoms}
        \cup {<<Stmt(Not(a))>> : a \in Atoms} \cup {<<Stmt(Neg(a))>> : a \in Atoms}
        \cup {<<Stmt(Not(Not(a)))>> : a \in Atoms}
        \cup {<<Stmt(IfElse(a, <<Lit(1)>>, <<Lit(2)>>))>> : a \in Atoms}

\* calls with every number of arguments against every number of parameters
MaxArity == 2
Names == <<"x", "y", "z">>
ArityPrograms ==
    {<<LetS("f", Fn(SubSeq(Names, 1, n), <<Stmt(Lit(1))>>)),
       Stmt(Call(Var("f"), [i \in 1..m |-> Lit(i)]))>> :
        n \in 0..MaxArity, m \in 0..MaxArity}
        \cup {<<Stmt(Call(a, <<>>))>> : a \in Atoms}
        \cup {<<Stmt(Call(a, <<b>>))>> : a \in Atoms, b \in Atoms}

CollectionPrograms ==
    {<<Stmt(Index(a, b))>> : a \in Atoms \cup {Arr(<<Lit(1), Lit(2)>>)}, b \in Atoms}
        \cup {<<Stmt(Index(HashLiteral(<<Pair(k, Lit(1))>>), b))>> :
                k \in {Lit(1), Str("s"), Boolean(TRUE)}, b \in Atoms}
        \cup {<<Stmt(HashLiteral(<<Pair(a, b)>>))>> : a \in Atoms, b \in Atoms}
        \cup {<<Stmt(Call(Var(f), <<a>>))>> : f \in DOMAIN BuiltinAddr, a \in Atoms}
        \cup {<<Stmt(Call(Var("push"), <<Arr(<<>>), a>>))>> : a \in Atoms}
        \cup {<<Stmt(Call(Var("first"), <<Arr(<<>>)>>))>>,
              <<Stmt(Call(Var("rest"), <<Arr(<<Lit(1), Lit(2)>>)>>))>>,
              <<Stmt(Call(Var("last"), <<Arr(<<Lit(1), Lit(2)>>)>>))>>}

RecursionPrograms ==
    { \* let f = fn(n) { if (n < 1) { 0 } else { f(n - 1) } }; f(2)
      <<LetS("f", Fn(<<"n">>, <<Stmt(IfElse(Bin("LT", Var("n"), Lit(1)), <<Stmt(Lit(0))>>,
                <<Stmt(Call(Var("f"), <<Bin("MINUS", Var("n"), Lit(1))>>))>>))>>)),
        Stmt(Call(Var("f"), <<Lit(2)>>))>>,
      \* let f = fn() { f() }; f()
      <<LetS("f", Fn(<<>>, <<Stmt(Call(Var("f"), <<>>))>>)), Stmt(Call(Var("f"), <<>>))>>,
      <<LetS("f", Fn(<<>>, <<Stmt(Call(Var("f"), <<>>))>>)), Stmt(Call(Var("f"), <<>>))>>}

\* what ParseProgram returns for a source text
Parsed(input) == ParseProgramFrom(New(Lexer(input)), <<>>).node

\* programs the parser reports errors for and still returns
ParsedPrograms ==
    {Parsed(input) : input \in
        { \* let 5
          <<T("LET"), TInt(<<"5">>)>>,
          \* return;
          <<T("RETURN"), T("SEMICOLON")>>,
          \* -;
          <<T("MINUS"), T("SEMICOLON")>>,
          \* 5 + ;
          <<TInt(<<"5">>), T("PLUS"), T("SEMICOLON")>>,
          \* if (a
          <<T("IF"), T("LPAREN"), TIdent("a")>>,
          \* return if (true) { return 5; };
          <<T("RETURN"), T("IF"), T("LPAREN"), T("TRUE"), T("RPAREN"), T("LBRACE"),
            T("RETURN"), TInt(<<"5">>), T("SEMICOLON"), T("RBRACE"), T("SEMICOLON")>>,
          \* fn(x) { x }()
          <<T("FUNCTION"), T("LPAREN"), TIdent("x"), T("RPAREN"), T("LBRACE"),
            TIdent("x"), T("RBRACE"), T("LPAREN"), T("RPAREN")>>,
          \* 5 / 0
          <<TInt(<<"5">>), T("SLASH"), TInt(<<"0">>)>>}}

(***************************************************************************)
(* Return inside nested if bodies.                                         *)
(***************************************************************************)
\* the deepest nesting of if bodies in the programs
MaxNest == 3

\* d if bodies around `return 10`, each followed by statements that must not run
RECURSIVE Nested(_)
Nested(d) ==
    IF d = 0 THEN <<RetS(Lit(10)), LetS("after", Lit(1)), RetS(Lit(0))>>
    ELSE <<Stmt(If(Boolean(TRUE), Nested(d - 1))), LetS("after", Lit(1)), RetS(Lit(d))>>

\* the nest as the program, and as the body of a function called by the program
NestedReturnPrograms ==
    {Nested(d) : d \in 0..MaxNest}
        \cup {<<LetS("f", Fn(<<>>, Nested(d))), LetS("r", Call(Var("f"), <<>>)),
                Stmt(Bin("PLUS", Var("r"), Lit(0)))>> : d \in 0..MaxNest}

\* the if whose body returns is an operand, not a statement of the block
OperandReturnPrograms ==
    { \* return if (true) { return 10; };
      <<RetS(If(Boolean(TRUE), <<RetS(Lit(10))>>))>>,
      \* if (true) { let x = if (true) { return 10; }; let after = 1; return 0; }
      <<Stmt(If(Boolean(TRUE), <<LetS("x", If(Boolean(TRUE), <<RetS(Lit(10))>>)),
                                 LetS("after", Lit(1)), RetS(Lit(0))>>))>>,
      \* let f = fn() { if (true) { return if (true) { return 10; } } }; let r = f();
      <<LetS("f", Fn(<<>>, <<Stmt(If(Boolean(TRUE),
                <<RetS(If(Boolean(TRUE), <<RetS(Lit(10))>>))>>))>>)),
        LetS("r", Call(Var("f"), <<>>))>>}

ReturnPrograms == NestedReturnPrograms \cup OperandReturnPrograms

(***************************************************************************)
(* An Error below one or two enclosing nodes.                              *)
(***************************************************************************)
\* expressions that evaluate to an Error, with its message
ErrorExpressions ==
    {[e |-> Var("nope"), msg |-> <<"identifier not found:", <<"nope">>>>],
     [e |-> Bin("PLUS", Lit(1), Boolean(TRUE)),
      msg |-> <<"type mismatch:", "INTEGER", Op("PLUS"), "BOOLEAN">>],
     [e |-> Neg(Boolean(TRUE)), msg |-> <<"unknown operator:", Op("MINUS"), "BOOLEAN">>]}

Contexts == 0..14

\* the k-th enclosing node around e; what stands after e leaves a mark if it runs
Enclose(k, e) ==
    CASE k = 0 -> e
      [] k = 1 -> Not(e)
      [] k = 2 -> Neg(e)
      [] k = 3 -> Bin("PLUS", e, Mark)
      [] k = 4 -> Bin("PLUS", Lit(1), e)
      [] k = 5 -> Index(e, Mark)
      [] k = 6 -> Index(Arr(<<Lit(1)>>), e)
      [] k = 7 -> IfElse(e, <<Stmt(Mark)>>, <<Stmt(Mark)>>)
      [] k = 8 -> Arr(<<e>>)
      [] k = 9 -> Arr(<<Lit(1), e, Mark>>)
      [] k = 10 -> Call(e, <<Mark>>)
      [] k = 11 -> Call(Var("len"), <<e>>)
      [] k = 12 -> Call(Fn(<<"x", "y", "z">>, <<Stmt(Mark)>>), <<Lit(1), e, Mark>>)
      [] k = 13 -> Call(Fn(<<>>, <<Stmt(e), Stmt(Mark)>>), <<>>)
      [] k = 14 -> If(Boolean(TRUE), <<Stmt(e), LetS("mark", Lit(1))>>)

StatementKinds == {"expression", "let", "return"}

Statement(kind, e) ==
    CASE kind = "expression" -> Stmt(e)
      [] kind = "let" -> LetS("bound", e)
      [] kind = "return" -> RetS(e)

ErrorProgram(kind, k1, k2, x) ==
    <<Statement(kind, Enclose(k1, Enclose(k2, x.e))), LetS("mark", Lit(1))>>

ErrorPrograms ==
    {ErrorProgram(kind, k1, k2, x) :
        kind \in StatementKinds, k1 \in Contexts, k2 \in Contexts, x \in ErrorExpressions}

\* the message of the Error inside a program of ErrorPrograms
ErrorMessage(prog) ==
    (CHOOSE x \in ErrorExpressions :
        \E kind \in StatementKinds, k1 \in Contexts, k2 \in Contexts :
            prog = ErrorProgram(kind, k1, k2, x)).msg

(***************************************************************************)
(* Closures, evaluation order, shadowing.                                  *)
(***************************************************************************)
Optional(flag, stmts) == IF flag THEN stmts ELSE <<>>

\* let mk = fn(x) { let y = 5; let f = fn() { [x, y] }; [let x = 9;] [let y = 8;] f };
\* let g = mk(1); [let h = mk(2); h();] [let x = 7; let y = 6;] g()
ClosureProgram(rebindX, rebindY, other, later) ==
    <<LetS("mk", Fn(<<"x">>,
            <<LetS("y", Lit(5)), LetS("f", Fn(<<>>, <<Stmt(Arr(<<Var("x"), Var("y")>>))>>))>>
                \o Optional(rebindX, <<LetS("x", Lit(9))>>)
                \o Optional(rebindY, <<LetS("y", Lit(8))>>)
                \o <<Stmt(Var("f"))>>)),
      LetS("g", Call(Var("mk"), <<Lit(1)>>))>>
        \o Optional(other, <<LetS("h", Call(Var("mk"), <<Lit(2)>>)),
                             Stmt(Call(Var("h"), <<>>))>>)
        \o Optional(later, <<LetS("x", Lit(7)), LetS("y", Lit(6))>>)
        \o <<Stmt(Call(Var("g"), <<>>))>>

ClosurePrograms ==
    {ClosureProgram(rx, ry, o, l) : rx \in BOOLEAN, ry \in BOOLEAN, o \in BOOLEAN, l \in BOOLEAN}

RebindsX(prog) ==
    \E ry \in BOOLEAN, o \in BOOLEAN, l \in BOOLEAN : prog = ClosureProgram(TRUE, ry, o, l)
RebindsY(prog) ==
    \E rx \in BOOLEAN, o \in BOOLEAN, l \in BOOLEAN : prog = ClosureProgram(rx, TRUE, o, l)

\* the most pairs in a hash literal of the programs
MaxPairs == 2

\* two subexpressions that both yield an Error; the left one names nope1
First == Var("nope1")
Second == Var("nope2")
SequencePrograms ==
    {<<Stmt(e)>> : e \in
        {Bin("PLUS", First, Second), Arr(<<First, Second>>), Arr(<<Lit(1), First, Second>>),
         Call(Var("len"), <<First, Second>>), Call(First, <<Second>>),
         Index(First, Second)}}

HashPrograms ==
    {<<Stmt(HashLiteral(<<Pair(First, Lit(1)), Pair(Second, Lit(2))>>))>>,
     <<Stmt(HashLiteral(<<Pair(Lit(1), First), Pair(Lit(2), Second)>>))>>,
     <<Stmt(HashLiteral(<<Pair(Lit(1), First), Pair(Second, Lit(2))>>))>>}
        \cup {<<Stmt(HashLiteral([i \in 1..n |-> Pair(Lit(i), Lit(i + 10))]))>> : n \in 0..MaxPairs}

PairProgram == <<Stmt(HashLiteral(<<Pair(First, Second)>>))>>

OrderPrograms == SequencePrograms \cup HashPrograms \cup {PairProgram}

\* the range over a map visits its entries in an order the runtime picks
RangeOrders ==
    {ord \in [1..MaxPairs -> 1..MaxPairs] : \A i, j \in 1..MaxPairs : ord[i] = ord[j] => i = j}
SourceOrder == [i \in 1..MaxPairs |-> i]

ShadowPrograms ==
    { \* let x = 1; let y = 2; let f = fn(x) { let y = x; let z = 3; y }; f(5); x
      <<LetS("x", Lit(1)), LetS("y", Lit(2)),
        LetS("f", Fn(<<"x">>, <<LetS("y", Var("x")), LetS("z", Lit(3)), Stmt(Var("y"))>>)),
        Stmt(Call(Var("f"), <<Lit(5)>>)), Stmt(Var("x"))>>,
      \* let x = 1; let g = fn(a) { let x = a; fn(b) { let x = b; let a = b; x + a } };
      \* let h = g(2); h(3); x
      <<LetS("x", Lit(1)),
        LetS("g", Fn(<<"a">>, <<LetS("x", Var("a")),
            Stmt(Fn(<<"b">>, <<LetS("x", Var("b")), LetS("a", Var("b")),
                               Stmt(Bin("PLUS", Var("x"), Var("a")))>>))>>)),
        LetS("h", Call(Var("g"), <<Lit(2)>>)), Stmt(Call(Var("h"), <<Lit(3)>>)),
        Stmt(Var("x"))>>,
      \* let x = 1; let f = fn(x) { let x = x + 1; x }; let k = fn(x) { f(x) + x };
      \* k(10); x
      <<LetS("x", Lit(1)),
        LetS("f", Fn(<<"x">>, <<LetS("x", Bin("PLUS", Var("x"), Lit(1))), Stmt(Var("x"))>>)),
        LetS("k", Fn(<<"x">>, <<Stmt(Bin("PLUS", Call(Var("f"), <<Var("x")>>), Var("x")))>>)),
        Stmt(Call(Var("k"), <<Lit(10)>>)), Stmt(Var("x"))>>,
      \* let x = 1; let f = fn() { if (true) { let x = 2; let w = 3; }; x }; f(); x
      <<LetS("x", Lit(1)),
        LetS("f", Fn(<<>>, <<Stmt(If(Boolean(TRUE), <<LetS("x", Lit(2)), LetS("w", Lit(3))>>)),
                             Stmt(Var("x"))>>)),
        Stmt(Call(Var("f"), <<>>)), Stmt(Var("x"))>>}

\* expressions that evaluate to true, to false and to null
SingletonAtoms ==
    {Boolean(TRUE), Boolean(FALSE), If(Boolean(FALSE), <<Lit(1)>>),
     Not(Lit(0)), Bin("LT", Lit(0), Lit(1)), Index(Arr(<<Lit(1)>>), Lit(1))}
SingletonValue(a) ==
    CASE a \in {Boolean(TRUE), Bin("LT", Lit(0), Lit(1))} -> "true"
      [] a \in {Boolean(FALSE), Not(Lit(0))} -> "false"
      [] OTHER -> "null"
SingletonPrograms ==
    {<<Stmt(Bin(op, a, b))>> : op \in {"EQ", "NOT_EQ"}, a \in SingletonAtoms, b \in SingletonAtoms}

\* the longest array indexed
MaxElems == 2

\* [10, 11, ...] of n elements, and the integer i as the parser builds it
ArrayOfLen(n) == Arr([k \in 1..n |-> Lit(9 + k)])
IntExpr(i) == IF i < 0 THEN Neg(Lit(-i)) ELSE Lit(i)

ArrayIndexPrograms ==
    {<<Stmt(Index(ArrayOfLen(n), IntExpr(i)))>> :
        n \in 0..MaxElems, i \in (-(MaxElems + 1))..(MaxElems + 1)}

\* an expression of every type of object, with the type
TypedOperands ==
    {[e |-> Lit(1), type |-> "INTEGER"], [e |-> Lit(2), type |-> "INTEGER"],
     [e |-> Boolean(TRUE), type |-> "BOOLEAN"], [e |-> Str("s"), type |-> "STRING"],
     [e |-> If(Boolean(FALSE), <<Lit(1)>>), type |-> "NULL"],
     [e |-> Fn(<<"x">>, <<Stmt(Var("x"))>>), type |-> "FUNCTION"],
     [e |-> Var("len"), type |-> "BUILTIN"],
     [e |-> Arr(<<Lit(10)>>), type |-> "ARRAY"],
     [e |-> HashLiteral(<<Pair(Lit(1), Lit(11))>>), type |-> "HASH"]}

IndexProgram(l, i) == <<Stmt(Index(l.e, i.e))>>
TypedIndexPrograms == {IndexProgram(l, i) : l \in TypedOperands, i \in TypedOperands}

\* operands of infix operators: every type, integers of both signs and zero
InfixOperands ==
    TypedOperands \cup
        {[e |-> Lit(0), type |-> "INTEGER"], [e |-> Neg(Lit(7)), type |-> "INTEGER"],
         [e |-> Lit(7), type |-> "INTEGER"],
         [e |-> Str("t"), type |-> "STRING"], [e |-> Boolean(FALSE), type |-> "BOOLEAN"]}

InfixProgram(op, l, r) == <<Stmt(Bin(op, l.e, r.e))>>
InfixPrograms ==
    {InfixProgram(op, l, r) : op \in BinaryOperators, l \in InfixOperands, r \in InfixOperands}

\* operands that are neither Integer nor String
OtherOperands == {o \in InfixOperands : o.type \notin {"INTEGER", "STRING"}}

\* let v = e; v op v: the same object on both sides
SameOperandProgram(op, o) == <<LetS("v", o.e), Stmt(Bin(op, Var("v"), Var("v")))>>
SameOperandPrograms ==
    {SameOperandProgram(op, o) : op \in {"EQ", "NOT_EQ"}, o \in OtherOperands}

\* d if bodies around if (cond) { let a = 1; } else { let b = 2; }
RECURSIVE IfNest(_, _)
IfNest(d, cond) ==
    IF d = 0
    THEN Stmt(IfElse(Boolean(cond), <<LetS("a", Lit(1))>>, <<LetS("b", Lit(2))>>))
    ELSE Stmt(If(Boolean(TRUE), <<IfNest(d - 1, cond)>>))

\* [let a = 0; let b = 0;] the nest; a (or b when cond is false)
BlockBody(d, cond, pre) ==
    Optional(pre, <<LetS("a", Lit(0)), LetS("b", Lit(0))>>)
        \o <<IfNest(d, cond), Stmt(Var(IF cond THEN "a" ELSE "b"))>>

\* the body as the program, or as let f = fn() { body }; f()
BlockProgram(d, cond, pre, inFn) ==
    IF inFn THEN <<LetS("f", Fn(<<>>, BlockBody(d, cond, pre))), Stmt(Call(Var("f"), <<>>))>>
    ELSE BlockBody(d, cond, pre)

BlockPrograms ==
    {BlockProgram(d, cond, pre, inFn) :
        d \in 0..MaxNest, cond \in BOOLEAN, pre \in BOOLEAN, inFn \in BOOLEAN}

EvalPrograms ==
    OperatorPrograms \cup SingletonPrograms \cup ArityPrograms \cup CollectionPrograms \cup RecursionPrograms
        \cup ParsedPrograms \cup ReturnPrograms \cup ErrorPrograms \cup ClosurePrograms
        \cup OrderPrograms \cup ShadowPrograms \cup BlockPrograms
        \cup ArrayIndexPrograms \cup TypedIndexPrograms \cup InfixPrograms
        \cup SameOperandPrograms

(***************************************************************************)
(* The evaluator: evalProgram on a program and a new Environment.          *)
(***************************************************************************)
RootEnv == 1

ParserUnused ==
    /\ tokens = <<>>
    /\ p = NoParser
    /\ ppc = "done"

InitEval ==
    /\ ParserUnused
    /\ program \in EvalPrograms
    /\ \E ord \in (IF program \in HashPrograms THEN RangeOrders ELSE {SourceOrder}) :
           heap = NewEnvironment(EmptyHeap(ord)).st
    /\ idx = 1
    /\ result = NilObj
    /\ epc = "loop"

\* one iteration of the loop of evalProgram
EvalProgramLoop ==
    /\ epc = "loop"
    /\ idx <= Len(program)
    /\ \E r \in {Eval(program[idx], RootEnv, heap)} :
           /\ heap' = r.st
           /\ IF IsPanic(r.val)
              THEN epc' = "panicked" /\ UNCHANGED <<idx, result>>
              ELSE IF r.val.Type = "RETURN_VALUE"
              THEN epc' = "returned" /\ result' = r.val.Value /\ UNCHANGED idx
              ELSE IF r.val.Type = "ERROR"
              THEN epc' = "returned" /\ result' = r.val /\ UNCHANGED idx
              ELSE epc' = "loop" /\ result' = r.val /\ idx' = idx + 1
    /\ UNCHANGED <<parserVars, program>>

\* the return after the loop
EvalProgramReturn ==
    /\ epc = "loop"
    /\ idx > Len(program)
    /\ epc' = "returned"
    /\ UNCHANGED <<parserVars, program, heap, idx, result>>

NextEval == EvalProgramLoop \/ EvalProgramReturn

SpecEval == InitEval /\ [][NextEval]_vars

(***************************************************************************)
(* Claims about the parser.                                                *)
(***************************************************************************)
HasType(ts, t) == \E i \in 1..Len(ts) : ts[i].Type = t

\* C1: on every token stream that ends in EOF, ParseProgram terminates and
\* returns a Program, whatever the tokens before EOF are: the loops of the
\* parser and its calls of parseExpression, counted together over the whole of
\* ParseProgram, stay within the step limit, so that no parse is cut off and
\* ParseProgram reaches its return.
C1_ParseProgramTerminates ==
    /\ ~p.diverged
    /\ p.steps <= StepLimit(p)

\* ParseProgram has returned on a stream that opens a block it never closes
\* and that holds a token without a prefix parselet
C1_Witness ==
    /\ ppc = "done"
    /\ HasType(tokens, "LBRACE") /\ ~HasType(tokens, "RBRACE")
    /\ HasType(tokens, "LPAREN") /\ ~HasType(tokens, "RPAREN")
    /\ \E i \in 1..Len(p.errors) : p.errors[i][1] = "no prefix parse function for"
    /\ Len(program) > 0

Operand(name) == Identifier(<<name>>)
Infix(op, l, r) == InfixExpression(FixedLexeme[op], l, r)

\* C2: a op1 b op2 c parses as ((a op1 b) op2 c) when op1 and op2 have the
\* same precedence, and as (a op1 (b op2 c)) when op2 has strictly higher
\* precedence than op1.
C2_LeftAssociative ==
    \A op1, op2 \in BinaryOperators :
        (ppc = "done" /\ tokens = Chain(op1, op2)) =>
            /\ precedences[op1] = precedences[op2] =>
                   program = <<ExpressionStatement(
                       Infix(op2, Infix(op1, Operand("a"), Operand("b")), Operand("c")))>>
            /\ precedences[op1] < precedences[op2] =>
                   program = <<ExpressionStatement(
                       Infix(op1, Operand("a"), Infix(op2, Operand("b"), Operand("c"))))>>

\* a - b + c has been parsed, with the first operator's node as the left operand
C2_Witness ==
    /\ ppc = "done"
    /\ tokens = Chain("MINUS", "PLUS")
    /\ Len(program) = 1
    /\ program[1].Expression.node = "InfixExpression"
    /\ program[1].Expression.Left.node = "InfixExpression"

RequiredPrefix ==
    {"IDENT", "INT", "STRING", "TRUE", "FALSE", "BANG", "MINUS", "LPAREN",
     "LBRACKET", "LBRACE", "IF", "FUNCTION"}
RequiredInfix ==
    {"PLUS", "MINUS", "SLASH", "ASTERISK", "EQ", "NOT_EQ", "LT", "GT", "LPAREN",
     "LBRACKET"}

\* C10: the parser's tables hold a prefix parselet for each of RequiredPrefix
\* and an infix parselet for each of RequiredInfix, the precedence of LBRACKET
\* is above CALL, and no "no prefix parse function" error is ever recorded for
\* STRING, LBRACKET or LBRACE.
C10_RequiredRegistrations ==
    ppc # "new" =>
    /\ RequiredPrefix \subseteq DOMAIN p.prefixParseFns
    /\ RequiredInfix \subseteq DOMAIN p.infixParseFns
    /\ "LBRACKET" \in DOMAIN precedences
    /\ "LBRACKET" \in DOMAIN precedences => precedences["LBRACKET"] > CALL
    /\ \A i \in 1..Len(p.errors) :
           p.errors[i][1] = "no prefix parse function for"
               => p.errors[i][2] \notin {"STRING", "LBRACKET", "LBRACE"}

(***************************************************************************)
(* Claims about the evaluator.                                             *)
(***************************************************************************)
Returned == epc = "returned"
Stores == {heap.envs[e].store : e \in 1..Len(heap.envs)}
Bound(name) == \E store \in Stores : <<name>> \in DOMAIN store
Bindings == UNION {{store[name] : name \in DOMAIN store} : store \in Stores}
IsInteger(obj, v) == obj.Type = "INTEGER" /\ obj.Int = v

\* C3: when evalProgram has returned from a program whose `return 10` stands
\* inside nested if bodies, no statement after an if or after the return has
\* run (after is unbound), the result of the program and the value bound from
\* a call are the Integer 10, and neither is a ReturnValue
C3_ReturnUnwindsNestedBlocks ==
    (Returned /\ program \in ReturnPrograms) =>
        /\ ~Bound("after")
        /\ result.Type # "RETURN_VALUE"
        /\ result.Type # "nil" => IsInteger(result, 10)
        /\ \A obj \in Bindings : obj.Type # "RETURN_VALUE"
        /\ \A store \in Stores : <<"r">> \in DOMAIN store => IsInteger(store[<<"r">>], 10)

\* C4: when evalProgram has returned from a program in which an Error arises
\* below one or two enclosing nodes, the result is that Error (its message, and
\* it is the last object allocated: it is not copied or wrapped and nothing is
\* evaluated after it), the loop stopped at the first statement, and neither
\* the enclosing let nor anything after the Error has bound a name
C4_ErrorShortCircuits ==
    /\ program \in ErrorPrograms => epc # "panicked"
    /\ (Returned /\ program \in ErrorPrograms) =>
        /\ result.Type = "ERROR"
        /\ result.Message = ErrorMessage(program)
        /\ result.addr = heap.next - 1
        /\ idx = 1
        /\ ~Bound("mark")
        /\ ~Bound("bound")

\* let bound = [1, fn() { nope; mark }(), mark]; let mark = 1 has returned the Error
C4_Witness ==
    /\ Returned
    /\ program = ErrorProgram("let", 9, 13, [e |-> Var("nope"),
                                             msg |-> <<"identifier not found:", <<"nope">>>>])
    /\ result.Type = "ERROR"
    /\ result.Message = <<"identifier not found:", <<"nope">>>>

\* C5: Eval never panics, whatever program it is given
C5_EvalNeverCrashes == epc # "panicked"

Ints(obj) == [i \in 1..Len(obj.Elements) |-> obj.Elements[i].Int]

\* C6 as stated: the closure g made by mk(1) returns the values x and y had when
\* the inner function literal was evaluated, 1 and 5
C6_ReadsValueAtCreation ==
    (Returned /\ program \in ClosurePrograms) =>
        result.Type = "ARRAY" /\ Ints(result) = <<1, 5>>

\* C6: the closure g made by mk(1) returns the values x and y have in the
\* environment of that activation: the ones they had when the inner function
\* literal was evaluated, unless a later let of the same activation rebound
\* them; another call of mk and lets of the same names outside do not matter
C6_ReadsCapturedEnvironment ==
    (Returned /\ program \in ClosurePrograms) =>
        /\ result.Type = "ARRAY"
        /\ Ints(result) = <<IF RebindsX(program) THEN 9 ELSE 1,
                            IF RebindsY(program) THEN 8 ELSE 5>>

\* mk rebinds x after making the closure, is called again, and x and y are let outside
C6_Witness ==
    /\ Returned
    /\ program = ClosureProgram(TRUE, FALSE, TRUE, TRUE)
    /\ result.Type = "ARRAY"
    /\ Ints(result) = <<9, 5>>

\* every Boolean in obj is TRUE or FALSE and every Null is NULL
RECURSIVE Canonical(_)
Canonical(obj) ==
    CASE obj.Type = "BOOLEAN" -> obj.addr \in {TRUEObj.addr, FALSEObj.addr}
      [] obj.Type = "NULL" -> obj.addr = NULL.addr
      [] obj.Type = "ARRAY" -> \A i \in 1..Len(obj.Elements) : Canonical(obj.Elements[i])
      [] obj.Type = "HASH" ->
            \A k \in DOMAIN obj.Pairs :
                Canonical(obj.Pairs[k].Key) /\ Canonical(obj.Pairs[k].Value)
      [] obj.Type = "RETURN_VALUE" -> Canonical(obj.Value)
      [] OTHER -> TRUE

\* C7: every Boolean and every Null among the result of evalProgram, the values
\* bound in the environments and the arguments given to puts is one of the
\* instances TRUE, FALSE and NULL; and == and != on two of them, which compare
\* identity, answer as the comparison of their values does
C7_CanonicalSingletons ==
    /\ Canonical(result)
    /\ \A obj \in Bindings : Canonical(obj)
    /\ \A i \in 1..Len(heap.out) : Canonical(heap.out[i])
    /\ \A a, b \in SingletonAtoms :
         /\ (Returned /\ program = <<Stmt(Bin("EQ", a, b))>>) =>
                result = nativeBoolToBooleanObject(SingletonValue(a) = SingletonValue(b))
         /\ (Returned /\ program = <<Stmt(Bin("NOT_EQ", a, b))>>) =>
                result = nativeBoolToBooleanObject(SingletonValue(a) # SingletonValue(b))

\* (if (false) { 1 }) == [1][1] has returned TRUE: two nulls are the same object
C7_Witness ==
    /\ Returned
    /\ program = <<Stmt(Bin("EQ", If(Boolean(FALSE), <<Lit(1)>>), Index(Arr(<<Lit(1)>>), Lit(1))))>>
    /\ result = TRUEObj

\* C8: when two subexpressions of an infix, an array literal, a call, an index
\* or a hash literal both yield an Error, the result is the Error of the one
\* written first
C8_LeftmostErrorWins ==
    (Returned /\ program \in OrderPrograms /\ result.Type = "ERROR") =>
        result.Message = <<"identifier not found:", <<"nope1">>>>

\* a call whose callee and arguments are evaluated without a let
Plain(e) == e.node \in {"Identifier", "IntegerLiteral", "Boolean", "StringLiteral"}
PlainCall(e) ==
    /\ e.node = "CallExpression"
    /\ e.Function.node = "Identifier"
    /\ \A i \in 1..Len(e.Arguments.elems) : Plain(e.Arguments.elems[i])
\* the expression a statement evaluates
CallOf(s) ==
    IF s.node = "ExpressionStatement" THEN s.Expression
    ELSE IF s.node = "LetStatement" /\ ~s.nilptr THEN s.Value
    ELSE Nil
\* the function object the callee of e names
Callee(e) == Get(heap.envs, RootEnv, e.Function.Name).obj
Old == 1..Len(heap.envs)
Fresh == (Len(heap.envs) + 1)..Len(heap'.envs)

\* C9: an iteration of evalProgram that evaluates f(args) leaves every
\* Environment that existed before it as it was, and one that evaluates
\* let r = f(args) changes nothing but the binding of r in the Environment of
\* the program; the Environments the calls create enclose ones that existed
\* before them, the first of them the Env of the function called, and it binds
\* the parameters
C9_SetWritesOnlyItsOwnStore ==
    [][(epc = "loop" /\ idx <= Len(program) /\ epc' # "panicked") =>
        LET s == program[idx]
        IN /\ (s.node = "ExpressionStatement" /\ PlainCall(s.Expression)) =>
                \A e \in Old : heap'.envs[e] = heap.envs[e]
           /\ (s.node = "LetStatement" /\ ~s.nilptr /\ PlainCall(s.Value)) =>
                /\ \A e \in Old \ {RootEnv} : heap'.envs[e] = heap.envs[e]
                /\ heap'.envs[RootEnv].outer = heap.envs[RootEnv].outer
                /\ \A n \in DOMAIN heap.envs[RootEnv].store \ {s.LetName.Name} :
                      /\ n \in DOMAIN heap'.envs[RootEnv].store
                      /\ heap'.envs[RootEnv].store[n] = heap.envs[RootEnv].store[n]
                /\ DOMAIN heap'.envs[RootEnv].store \subseteq
                      DOMAIN heap.envs[RootEnv].store \cup {s.LetName.Name}
           /\ \A c \in {CallOf(s)} :
                (PlainCall(c) /\ Callee(c).Type = "FUNCTION") =>
                    /\ Fresh # {}
                    /\ heap'.envs[Len(heap.envs) + 1].outer = Callee(c).Env
                    /\ \A i \in 1..Len(Callee(c).Parameters.elems) :
                          Callee(c).Parameters.elems[i].Name
                              \in DOMAIN heap'.envs[Len(heap.envs) + 1].store
                    /\ \A e \in Fresh : heap'.envs[e].outer \in 1..(e - 1)
    ]_vars

\* let x = 1; let y = 2; let f = fn(x) { let y = x; ... }; f(5); x has returned
\* 1: the call bound x and y to 5 in its own Environment, outside they are 1 and 2
C9_Witness ==
    /\ Returned
    /\ program \in ShadowPrograms
    /\ Len(heap.envs) = 2
    /\ <<"y">> \in DOMAIN heap.envs[2].store
    /\ IsInteger(heap.envs[2].store[<<"x">>], 5)
    /\ IsInteger(heap.envs[2].store[<<"y">>], 5)
    /\ IsInteger(heap.envs[RootEnv].store[<<"x">>], 1)
    /\ IsInteger(heap.envs[RootEnv].store[<<"y">>], 2)
    /\ IsInteger(result, 1)

\* C12: there is one Environment for the program and one more for every user
\* function applied, none for a block; and when evalProgram has returned from
\* a program that executes a let inside nested if bodies, the binding is in
\* the Environment the outermost if was evaluated in (the program's, or the
\* call's when the ifs stand in a function body), the branch not taken has
\* bound nothing, and the statement after the if has read the binding
C12_BlockCreatesNoEnvironment ==
    /\ epc \in {"loop", "returned", "panicked"} => Len(heap.envs) = 1 + heap.calls
    /\ \A d \in 0..MaxNest, cond \in BOOLEAN, pre \in BOOLEAN, inFn \in BOOLEAN :
         (Returned /\ program = BlockProgram(d, cond, pre, inFn)) =>
            LET here == IF inFn THEN 2 ELSE RootEnv
                taken == IF cond THEN <<"a">> ELSE <<"b">>
                other == IF cond THEN <<"b">> ELSE <<"a">>
                store == heap.envs[here].store
            IN /\ Len(heap.envs) = here
               /\ taken \in DOMAIN store
               /\ IsInteger(store[taken], IF cond THEN 1 ELSE 2)
               /\ IsInteger(result, IF cond THEN 1 ELSE 2)
               /\ other \in DOMAIN store <=> pre
               /\ pre => IsInteger(store[other], 0)
               /\ inFn => DOMAIN heap.envs[RootEnv].store = {<<"f">>}

\* let f = fn() { if (true) { if (true) { if (false) { let a = 1; } else
\* { let b = 2; } } }; b }; f() has returned 2, with two Environments
C12_Witness ==
    /\ Returned
    /\ program = BlockProgram(2, FALSE, FALSE, TRUE)
    /\ Len(heap.envs) = 2
    /\ IsInteger(heap.envs[2].store[<<"b">>], 2)
    /\ IsInteger(result, 2)

IsErrorWith(obj, msg) == obj.Type = "ERROR" /\ obj.Message = msg

\* [10, 11, ...][i]: the element at i when 0 <= i < n, and NULL itself otherwise
ArrayIndexing ==
    \A n \in 0..MaxElems, i \in (-(MaxElems + 1))..(MaxElems + 1) :
        program = <<Stmt(Index(ArrayOfLen(n), IntExpr(i)))>> =>
            /\ epc # "panicked"
            /\ Returned => IF 0 <= i /\ i < n THEN IsInteger(result, 10 + i)
                           ELSE result = NULL

\* {1: 11}[1] is 11, and {1: 11}[k] is NULL itself for a hashable k other than 1
HashIndexing ==
    \A l, i \in TypedOperands :
        (Returned /\ program = IndexProgram(l, i) /\ l.type = "HASH"
                  /\ i.type \in {"INTEGER", "BOOLEAN", "STRING"}) =>
            IF i.e = Lit(1) THEN IsInteger(result, 11) ELSE result = NULL

\* C13 as stated: array and hash indexing as above, and every other
\* combination of operands yields "index operator not supported: <type of left>"
C13_EveryOtherIndexNotSupported ==
    /\ ArrayIndexing
    /\ HashIndexing
    /\ \A l, i \in TypedOperands :
         (Returned /\ program = IndexProgram(l, i)
                   /\ ~(l.type = "ARRAY" /\ i.type = "INTEGER")
                   /\ ~(l.type = "HASH" /\ i.type \in {"INTEGER", "BOOLEAN", "STRING"})) =>
            IsErrorWith(result, <<"index operator not supported:", l.type>>)

\* C13: array and hash indexing as above; a Hash indexed with an object that
\* is not hashable yields "unusable as hash key: <type of index>"; an Array
\* indexed with anything but an Integer, and any other left operand with any
\* index, yields "index operator not supported: <type of left>"; none panics
C13_IndexExpression ==
    /\ ArrayIndexing
    /\ HashIndexing
    /\ \A l, i \in TypedOperands :
         program = IndexProgram(l, i) =>
            /\ epc # "panicked"
            /\ (Returned /\ l.type = "HASH"
                         /\ i.type \notin {"INTEGER", "BOOLEAN", "STRING"}) =>
                  IsErrorWith(result, <<"unusable as hash key:", i.type>>)
            /\ (Returned /\ (l.type \notin {"ARRAY", "HASH"}
                             \/ (l.type = "ARRAY" /\ i.type # "INTEGER"))) =>
                  IsErrorWith(result, <<"index operator not supported:", l.type>>)

\* [10, 11][1] has returned 11
C13_Witness ==
    /\ Returned
    /\ program = <<Stmt(Index(ArrayOfLen(2), IntExpr(1)))>>
    /\ IsInteger(result, 11)

\* the integer an integer operand stands for
IntOf(o) == IF o.e.node = "IntegerLiteral" THEN o.e.Int ELSE -o.e.Right.Int

\* the quotient of integer arithmetic: a = q * b + rem with rem of the sign of a
\* and smaller than b in absolute value
Quotient(a, b) ==
    CHOOSE q \in (-Abs(a))..Abs(a) :
        \E rem \in (-Abs(b) + 1)..(Abs(b) - 1) :
            a = q * b + rem /\ (rem = 0 \/ (rem < 0) = (a < 0))

\* two evaluations of the operands give the same object: TRUE, FALSE, NULL, a builtin
SameInstance(l, r) ==
    /\ l.type = r.type
    /\ l.type \in {"BOOLEAN", "NULL", "BUILTIN"}
    /\ l.e = r.e

\* what l op r is to yield
InfixExpected(op, l, r, obj) ==
    LET error(kind) == IsErrorWith(obj, <<kind, l.type, Op(op), r.type>>)
        bool(b) == obj = (IF b THEN TRUEObj ELSE FALSEObj)
    IN IF l.type = "INTEGER" /\ r.type = "INTEGER"
       THEN CASE op = "PLUS" -> IsInteger(obj, IntOf(l) + IntOf(r))
              [] op = "MINUS" -> IsInteger(obj, IntOf(l) - IntOf(r))
              [] op = "ASTERISK" -> IsInteger(obj, IntOf(l) * IntOf(r))
              [] op = "SLASH" -> IsInteger(obj, Quotient(IntOf(l), IntOf(r)))
              [] op = "LT" -> bool(IntOf(l) < IntOf(r))
              [] op = "GT" -> bool(IntOf(l) > IntOf(r))
              [] op = "EQ" -> bool(IntOf(l) = IntOf(r))
              [] op = "NOT_EQ" -> bool(IntOf(l) # IntOf(r))
       ELSE IF l.type = "STRING" /\ r.type = "STRING"
       THEN IF op = "PLUS" THEN obj.Type = "STRING" /\ obj.Str = l.e.Str \o r.e.Str
            ELSE error("unknown operator:")
       ELSE IF op = "EQ" THEN bool(SameInstance(l, r))
       ELSE IF op = "NOT_EQ" THEN bool(~SameInstance(l, r))
       ELSE IF l.type # r.type THEN error("type mismatch:")
       ELSE error("unknown operator:")

DividesByZero(op, l, r) ==
    op = "SLASH" /\ l.type = "INTEGER" /\ r.type = "INTEGER" /\ IntOf(r) = 0

\* C14: when evalProgram has returned from l op r, for every operator and
\* every pair of operand types, the result is: for two Integers the integer
\* sum, difference, product, quotient or comparison; for two Strings the
\* concatenation on + and "unknown operator: STRING op STRING" otherwise; for
\* any other pair, on == and != TRUE or FALSE by identity of the operands and
\* never an Error; otherwise "type mismatch" when the types differ and
\* "unknown operator" when they are the same. v == v on one object that is
\* neither Integer nor String is TRUE and v != v is FALSE.
\* Nothing but an Integer division by zero panics
C14_InfixDispatch ==
    /\ program \in InfixPrograms =>
         \A c \in {CHOOSE x \in BinaryOperators \X InfixOperands \X InfixOperands :
                       program = InfixProgram(x[1], x[2], x[3])} :
            /\ ~DividesByZero(c[1], c[2], c[3]) => epc # "panicked"
            /\ Returned => InfixExpected(c[1], c[2], c[3], result)
    /\ \A o \in OtherOperands :
         /\ (Returned /\ program = SameOperandProgram("EQ", o)) => result = TRUEObj
         /\ (Returned /\ program = SameOperandProgram("NOT_EQ", o)) => result = FALSEObj

\* 5 == true, as 1 == true here, has returned FALSE and no Error
C14_Witness ==
    /\ Returned
    /\ program = <<Stmt(Bin("EQ", Lit(1), Boolean(TRUE)))>>
    /\ result = FALSEObj

\* the decimal value of the digits fits in a signed 64-bit integer
FitsInt64(lit) ==
    LET ds == StripZeros(lit) IN
    \/ Len(ds) < Len(MaxInt64Digits)
    \/ Len(ds) = Len(MaxInt64Digits) /\ DigitsLeq(ds, MaxInt64Digits)

\* C15: when ParseProgram has returned from an input of one INT token, the
\* program is one expression statement whose IntegerLiteral has the decimal
\* value of the token's digits, leading zeros included, and no error is
\* recorded; or, when the decimal value does not fit in a signed 64-bit
\* integer, the statement has no expression and the one error recorded is
\* "could not parse <literal> as integer"
C15_Base10IntegerLiteral ==
    (ppc = "done" /\ tokens \in IntegerInputs) =>
        LET lit == tokens[1].Literal IN
        IF FitsInt64(lit)
        THEN /\ program = <<ExpressionStatement(IntegerLiteral(DigitsValue(lit, 10)))>>
             /\ p.errors = <<>>
        ELSE /\ program = <<ExpressionStatement(Nil)>>
             /\ p.errors = <<<<"could not parse", lit, "as integer">>>>

\* no node is missing in n or below it; an if without else has no Alternative
RECURSIVE Present(_)
Present(n) ==
    CASE n.node = "nil" -> FALSE
      [] n.node = "PrefixExpression" -> Present(n.Right)
      [] n.node = "InfixExpression" -> Present(n.Left) /\ Present(n.Right)
      [] n.node = "IfExpression" ->
            /\ Present(n.Condition)
            /\ Present(n.Consequence)
            /\ n.Alternative # Nil => Present(n.Alternative)
      [] n.node = "FunctionLiteral" ->
            /\ ~n.Parameters.isNil
            /\ \A i \in 1..Len(n.Parameters.elems) : Present(n.Parameters.elems[i])
            /\ Present(n.Body)
      [] n.node = "CallExpression" ->
            /\ Present(n.Function)
            /\ ~n.Arguments.isNil
            /\ \A i \in 1..Len(n.Arguments.elems) : Present(n.Arguments.elems[i])
      [] n.node = "BlockStatement" ->
            \A i \in 1..Len(n.Statements) : Present(n.Statements[i])
      [] n.node = "LetStatement" -> ~n.nilptr /\ Present(n.Value)
      [] n.node = "ReturnStatement" -> Present(n.ReturnValue)
      [] n.node = "ExpressionStatement" -> Present(n.Expression)
      [] OTHER -> TRUE

IsPrefix(s, t) == Len(s) <= Len(t) /\ SubSeq(t, 1, Len(s)) = s

\* C16: when ParseProgram has returned with an empty error list, no node of
\* the program is missing: every statement, expression statement, let value,
\* return value, prefix and infix operand, if condition and body, call
\* argument and argument list, function parameter list and body is there.
\* Every step of the parser keeps the errors it had and may append to them,
\* and every iteration of ParseProgram's loop either appends one statement
\* with no node missing or appends at least one error.
C16_NoErrorsNoMissingNode ==
    /\ []((ppc = "done" /\ p.errors = <<>>) =>
             \A i \in 1..Len(program) : Present(program[i]))
    /\ [][IsPrefix(p.errors, p.errors')]_vars
    /\ [][(ppc = "parse" /\ ppc' = "parse") =>
             \/ Len(p.errors') > Len(p.errors)
             \/ /\ Len(program') = Len(program) + 1
                /\ Present(program'[Len(program')])]_vars

\* fn(a, b) { a + b }(5, a) has been parsed without an error: a call with its
\* two arguments of a function literal with its two parameters
C16_Witness ==
    /\ ppc = "done"
    /\ p.errors = <<>>
    /\ Len(program) = 1
    /\ program[1].node = "ExpressionStatement"
    /\ program[1].Expression.node = "CallExpression"
    /\ Len(program[1].Expression.Arguments.elems) = 2
    /\ program[1].Expression.Function.node = "FunctionLiteral"
    /\ Len(program[1].Expression.Function.Parameters.elems) = 2
    /\ Present(program[1])

(***************************************************************************)
(* The environments on their own: NewEnvironment, NewEnclosedEnvironment,  *)
(* Set and Get called in any order on up to MaxEnvs environments.          *)
(***************************************************************************)
MaxEnvs == 3
EnvNames == {<<"x">>, <<"y">>}

\* the value Set writes into environment e: it tells where a binding was made
EnvValue(e) == [IntegerObj(e) EXCEPT !.addr = FirstAddr + e]

EnvUnused ==
    /\ ParserUnused
    /\ program = <<>>
    /\ idx = 0

InitEnv ==
    /\ EnvUnused
    /\ heap = EmptyHeap(SourceOrder)
    /\ result = NilObj
    /\ epc = "env"

CallNewEnvironment ==
    /\ Len(heap.envs) < MaxEnvs
    /\ \E new \in {NewEnvironment(heap)} :
           /\ heap' = new.st
           /\ result' = [env |-> new.env]
    /\ epc' = "NewEnvironment"
    /\ UNCHANGED <<parserVars, program, idx>>

CallNewEnclosedEnvironment ==
    /\ Len(heap.envs) < MaxEnvs
    /\ \E outer \in 1..Len(heap.envs) :
           \E new \in {NewEnclosedEnvironment(outer, heap)} :
               /\ heap' = new.st
               /\ result' = [env |-> new.env]
    /\ epc' = "NewEnclosedEnvironment"
    /\ UNCHANGED <<parserVars, program, idx>>

CallSet ==
    /\ \E e \in 1..Len(heap.envs), name \in EnvNames :
           /\ heap' = Set(e, name, EnvValue(e), heap)
           /\ result' = [env |-> e, name |-> name, obj |-> EnvValue(e)]
    /\ epc' = "Set"
    /\ UNCHANGED <<parserVars, program, idx>>

CallGet ==
    /\ \E e \in 1..Len(heap.envs), name \in EnvNames :
           \E got \in {Get(heap.envs, e, name)} :
               result' = [env |-> e, name |-> name, obj |-> got.obj, ok |-> got.ok]
    /\ epc' = "Get"
    /\ UNCHANGED <<parserVars, program, idx, heap>>

NextEnv == CallNewEnvironment \/ CallNewEnclosedEnvironment \/ CallSet \/ CallGet

SpecEnv == InitEnv /\ [][NextEnv]_vars

\* the environments from e outwards, innermost first
RECURSIVE EnvChain(_, _)
EnvChain(envs, e) ==
    IF envs[e].outer = 0 THEN <<e>> ELSE <<e>> \o EnvChain(envs, envs[e].outer)

\* the positions of the chain from the environment of the last Get that hold its name
Holders ==
    LET chain == EnvChain(heap.envs, result.env)
    IN {i \in 1..Len(chain) : result.name \in DOMAIN heap.envs[chain[i]].store}
Innermost ==
    LET chain == EnvChain(heap.envs, result.env)
    IN chain[CHOOSE i \in Holders : \A j \in Holders : i <= j]

\* C11: after Get(name) on an environment, ok is false exactly when no
\* environment of the chain holds the name, and then the object is nil;
\* otherwise the object is the binding of the innermost environment of the
\* chain that holds the name; and the call has changed no environment
C11_GetInnermostBinding ==
    /\ [](epc = "Get" =>
            /\ result.ok <=> Holders # {}
            /\ ~result.ok => result.obj = NilObj
            /\ result.ok => result.obj = heap.envs[Innermost].store[result.name])
    /\ [][epc' = "Get" => heap' = heap]_vars

\* Get on an environment two levels in, where the name is bound in all three
\* environments of the chain, has returned the binding of the innermost
C11_Witness ==
    /\ epc = "Get"
    /\ Len(EnvChain(heap.envs, result.env)) = 3
    /\ Holders = {1, 2, 3}
    /\ result.ok
    /\ result.obj = EnvValue(result.env)

====
